---------------------------- MODULE Spec2Model ----------------------------
(***************************************************************************)
(* A model of the canvas grid engine of the atry4cursor repository.       *)
(*                                                                         *)
(* The "full grid variant" is the single-file component                    *)
(* src/unnamed/part_000: a virtualised table painted on one canvas, with   *)
(* its own vertical and horizontal scrollbars, row selection and hover,    *)
(* column-resize detection and a tooltip.  Its reactive refs are the       *)
(* variables below, its event handlers are the actions, its computed       *)
(* properties are operators over the current state.                        *)
(*                                                                         *)
(* Pixel quantities that the code obtains by division (thumb sizes, drag   *)
(* ratios, scroll offsets) are exact rationals <<n, d>>; JavaScript's NaN  *)
(* is the value NaN.  Widths measured by the canvas context are integers   *)
(* and a cell's text is represented by its measured width.                 *)
(***************************************************************************)
EXTENDS Integers, Sequences, FiniteSets, TLC

(***************************************************************************)
(* Rational arithmetic: <<n, d>> with d > 0 and gcd(n, d) = 1.             *)
(***************************************************************************)
Abs(n) == IF n < 0 THEN -n ELSE n

RECURSIVE GCD(_, _)
GCD(a, b) == IF b = 0 THEN a ELSE GCD(b, a % b)

Norm(n, d) ==
    LET s == IF d < 0 THEN -1 ELSE 1
        g == GCD(Abs(n), Abs(d))
    IN  <<(s * n) \div g, (s * d) \div g>>

FInt(k) == <<k, 1>>
FAdd(a, b) == Norm(a[1] * b[2] + b[1] * a[2], a[2] * b[2])
FSub(a, b) == Norm(a[1] * b[2] - b[1] * a[2], a[2] * b[2])
FMul(a, b) == Norm(a[1] * b[1], a[2] * b[2])
FDiv(a, b) == Norm(a[1] * b[2], a[2] * b[1])
FLe(a, b) == a[1] * b[2] <= b[1] * a[2]
FLt(a, b) == a[1] * b[2] < b[1] * a[2]
FMin(a, b) == IF FLe(a, b) THEN a ELSE b
FMax(a, b) == IF FLe(a, b) THEN b ELSE a
FFloor(a) == a[1] \div a[2]
FCeil(a) == -((-a[1]) \div a[2])

\* JavaScript's NaN and Infinity, kept apart from every rational by d = 0.
NaN == <<0, 0>>
Infinity == <<1, 0>>

(***************************************************************************)
(* Text metrics and layout.  A string is the sequence of its characters;   *)
(* "w" stands for a Latin letter, " " for a whitespace character, "H" for  *)
(* a CJK ideograph and "." for the full stop.  context.measureText adds up *)
(* the advance widths of the glyphs of the one font the code sets.         *)
(***************************************************************************)
charWidth(ch) ==
    CASE ch = "w" -> 8
      [] ch = " " -> 4
      [] ch = "H" -> 14
      [] OTHER -> 4

RECURSIVE measureText(_)
measureText(t) ==
    IF t = << >> THEN 0 ELSE charWidth(Head(t)) + measureText(Tail(t))

ellipsis == <<".", ".", ".">>

\* text.substring(0, n)
Prefix(t, n) == SubSeq(t, 1, n)

\* A variant of the search's test that measures the prefix alone, leaving
\* the ellipsis out of the width.
prefixFits(t, mid, maxWidth) ==
    measureText(Prefix(t, mid)) <= maxWidth

\* A variant of the search's test that asks for a pixel to spare.
truncatedFitsStrict(t, mid, maxWidth) ==
    measureText(Prefix(t, mid) \o ellipsis) < maxWidth

\* The test of the binary search: the prefix with the ellipsis fits.
truncatedFits(t, mid, maxWidth) ==
    measureText(Prefix(t, mid) \o ellipsis) <= maxWidth

RECURSIVE EllipsisSearch(_, _, _, _)
EllipsisSearch(t, maxWidth, left, right) ==
    IF left < right
    THEN LET mid == (left + right + 1) \div 2
         IN  IF truncatedFits(t, mid, maxWidth)
             THEN EllipsisSearch(t, maxWidth, mid, right)
             ELSE EllipsisSearch(t, maxWidth, left, mid - 1)
    ELSE left

getEllipsisText(t, maxWidth) ==
    IF measureText(t) <= maxWidth THEN t
    ELSE Prefix(t, EllipsisSearch(t, maxWidth, 0, Len(t))) \o ellipsis

\* text.split on the places before and after an ideograph and before and
\* after a whitespace character: every such character is a word of its own
\* and a run of other characters is one word; the empty string gives the
\* one empty word.
IsBreakChar(ch) == ch = "H" \/ ch = " "

RECURSIVE SplitFrom(_, _, _)
SplitFrom(t, i, word) ==
    IF i > Len(t) THEN <<word>>
    ELSE IF i > 1 /\ (IsBreakChar(t[i - 1]) \/ IsBreakChar(t[i]))
         THEN <<word>> \o SplitFrom(t, i + 1, <<t[i]>>)
         ELSE SplitFrom(t, i + 1, Append(word, t[i]))

splitWords(t) == SplitFrom(t, 1, << >>)

\* words.indexOf(word), counted from 0.
indexOf(words, word) ==
    (CHOOSE i \in 1 .. Len(words) :
        words[i] = word /\ \A j \in 1 .. (i - 1) : words[j] # word) - 1

\* while (measureText(currentLine + '...') > maxWidth) currentLine =
\* currentLine.slice(0, -1): slicing the empty string leaves it empty, so
\* the loop does not end when the ellipsis alone is wider than maxWidth.
trimHangs(maxWidth) == measureText(ellipsis) > maxWidth

RECURSIVE trimToFit(_, _)
trimToFit(line, maxWidth) ==
    IF measureText(line \o ellipsis) > maxWidth /\ line # << >>
    THEN trimToFit(Prefix(line, Len(line) - 1), maxWidth)
    ELSE line

\* if (currentLine && lines.length < maxLines) lines.push(currentLine)
pushLastLine(lines, currentLine, maxLines) ==
    IF currentLine # << >> /\ Len(lines) < maxLines
    THEN Append(lines, currentLine) ELSE lines

Wrapped(lines) == [hangs |-> FALSE, lines |-> lines]
Hangs == [hangs |-> TRUE, lines |-> << >>]

\* The loop over the words, from word k with the lines and the current line
\* built so far.
RECURSIVE wrapFrom(_, _, _, _, _, _)
wrapFrom(words, k, lines, currentLine, maxWidth, maxLines) ==
    IF k > Len(words) THEN Wrapped(pushLastLine(lines, currentLine, maxLines))
    ELSE IF measureText(currentLine \o words[k]) > maxWidth /\ currentLine # << >>
    THEN IF Len(lines) + 1 >= maxLines
         THEN IF Len(words) > indexOf(words, words[k]) + 1
              THEN IF trimHangs(maxWidth) THEN Hangs
                   ELSE Wrapped(pushLastLine(Append(lines, currentLine),
                                             trimToFit(words[k], maxWidth) \o ellipsis,
                                             maxLines))
              ELSE Wrapped(pushLastLine(Append(lines, currentLine), words[k], maxLines))
         ELSE wrapFrom(words, k + 1, Append(lines, currentLine), words[k],
                       maxWidth, maxLines)
    ELSE wrapFrom(words, k + 1, lines, currentLine \o words[k], maxWidth, maxLines)

linePadding == 10
lineHeight == 20

\* Math.floor((props.rowHeight - padding * 2) / lineHeight)
maxLinesOf(rh) == (rh - linePadding * 2) \div lineHeight

\* The lines drawRows draws for a cell in the multi-line mode, maxWidth being
\* the column's width less the padding on both sides.
wrapLines(t, maxWidth, rh) ==
    wrapFrom(splitWords(t), 1, << >>, << >>, maxWidth, maxLinesOf(rh))

(***************************************************************************)
(* Props and the host's data.                                              *)
(***************************************************************************)
headerHeight == 40
rowHeight == 30

\* A column descriptor: its fixed width (0 when the descriptor has none) and
\* the measured width of its title.
FixedColumn == [width |-> 100, title |-> 30]
FlexColumn == [width |-> 0, title |-> 30]
DefaultColumns == <<FixedColumn, FlexColumn>>

\* The column lists of the hit-testing and width specifications: none, one
\* flexible, the default pair, two fixed, two flexible.
ColumnLists == {<< >>, <<FlexColumn>>, DefaultColumns,
                <<FixedColumn, FixedColumn>>, <<FlexColumn, FlexColumn>>}

\* A row is the tuple of the measured widths of its cells' texts.
NarrowRow == <<20, 110>>
WideRow == <<20, 200>>

LongData == <<NarrowRow, NarrowRow, NarrowRow, NarrowRow, NarrowRow, WideRow>>
ShortData == <<NarrowRow, NarrowRow>>
Datasets == {LongData, ShortData}
EmptyData == << >>
AllDatasets == Datasets \cup {EmptyData}
\* Two rows, the first with a first-column text wider than the room a
\* column 100 wide leaves it; and a column narrower than a cell's padding.
TooltipData == <<<<90, 110>>, NarrowRow>>
NarrowColumn == [width |-> 10, title |-> 30]

\* The sizes the host gives the container element (tableContainer).
ContainerWidths == {200, 400}
\* A container that leaves the horizontal thumb (at least 40 wide) no room
\* beside the vertical scrollbar's 12 pixels.
NarrowWidths == {52}
\* Widths that leave two flexible columns an odd number of pixels to share.
OddWidths == {401}
AllContainerWidths == ContainerWidths \cup NarrowWidths \cup OddWidths
ContainerHeights == {130}
\* A height that leaves the rows less room than the shortest thumb takes.
LowHeights == {70}
AllContainerHeights == ContainerHeights \cup LowHeights

\* Program constants of the layout code.
minColumnWidth == 150
cellPadding == 40
scrollbarSize == 12
minThumbHeight == 40
minThumbWidth == 40
borderTolerance == 5

VARIABLES
    data,                       \* props.data
    columns,                    \* props.columns
    showEllipsis,               \* props.showEllipsis
    domWidth,                   \* the container element's current width
    domHeight,                  \* the container element's current height
    phase,                      \* "setup" | "mounted" | "ready" | "unmounted"
    ctx,                        \* ctx.value is set
    containerWidth,             \* containerWidth.value
    scrollTop,                  \* scrollTop.value
    scrollLeft,                 \* scrollLeft.value
    selectedRow,                \* selectedRow.value
    hoveredRow,                 \* hoveredRow.value
    resizingColumn,             \* resizingColumn.value
    state,                      \* state.value: columnWidths, startX, isResizing
    isDraggingScroll,           \* isDraggingScroll.value
    startDragY,                 \* startDragY.value
    startScrollTop,             \* startScrollTop.value
    isDraggingHorizontalScroll, \* isDraggingHorizontalScroll.value
    startDragX,                 \* startDragX.value
    startScrollLeft,            \* startScrollLeft.value
    tooltipShow,                \* tooltip.value.show
    observing,                  \* the ResizeObserver is connected
    resizeNotified,             \* the observer has a size to deliver
    winListeners,               \* the window-level drag listeners registered
    last,                       \* the last event delivered (history)
    layout,                     \* a cell's text, the room it has, what is drawn
    frameQueue,                 \* requestAnimationFrame callbacks not yet run
    wheelTimer,                 \* debouncedRender's timer is armed
    surface                     \* the canvas's size as initCanvas left it

Columns == columns

\* The container element is in the document and tableContainer.value is it.
Attached == phase \in {"mounted", "ready"}

rowCount == Len(data)
columnCount == Len(Columns)
contentHeight == rowCount * rowHeight

\* tableContainer.value?.clientHeight - props.headerHeight || 0
viewportHeight == IF Attached THEN domHeight - headerHeight ELSE 0

showScrollbar == contentHeight > viewportHeight

\* heightRatio is containerHeight / contentHeight: with no rows the quotient
\* is Infinity (every modelled container is taller than the header band).
thumbHeight ==
    IF contentHeight = 0 THEN Infinity
    ELSE FMax(FInt(minThumbHeight),
              Norm(viewportHeight * viewportHeight, contentHeight))

\* thumbPosition.value.  Without rows thumbHeight is Infinity and
\* scrollableHeight is -Infinity: its product with the zero of
\* scrollTop / maxScroll is NaN, with a negative quotient Infinity.
thumbPosition ==
    LET maxScroll == contentHeight - viewportHeight
    IN  IF maxScroll = 0 THEN FInt(headerHeight)
        ELSE IF scrollTop = NaN THEN NaN
        ELSE IF thumbHeight = Infinity
             THEN (IF scrollTop = FInt(0) THEN NaN ELSE Infinity)
        ELSE FAdd(FMul(FDiv(scrollTop, FInt(maxScroll)),
                       FSub(FInt(viewportHeight), thumbHeight)),
                  FInt(headerHeight))

Max2(a, b) == IF a < b THEN b ELSE a
Min2(a, b) == IF a < b THEN a ELSE b

(***************************************************************************)
(* The column width resolver.  The widths depend on scrollTop through the  *)
(* rows measureCellWidth reads; the operators ending in At take the        *)
(* scrollTop to use, for a listener that runs after another one has        *)
(* already written scrollTop within the same event.                        *)
(***************************************************************************)
\* The rows measureCellWidth reads: it uses the container's whole height.
visibleStartIndex(st) == FFloor(FDiv(st, FInt(rowHeight)))
visibleEndIndex(st) ==
    Min2(rowCount, FCeil(FDiv(FAdd(st, FInt(domHeight)), FInt(rowHeight))))

RECURSIVE MaxContentWidth(_, _, _)
MaxContentWidth(c, i, hi) ==
    IF i >= hi THEN 0
    ELSE Max2(data[i + 1][c + 1] + cellPadding, MaxContentWidth(c, i + 1, hi))

\* A variant of the measurement that reads the rows of the unscrolled window.
measureCellWidthUnscrolled(c, st) ==
    Max2(Max2(Columns[c + 1].title + cellPadding,
              MaxContentWidth(c, 0, visibleEndIndex(FInt(0)))),
         minColumnWidth)

measureCellWidth(c, st) ==
    Max2(Max2(Columns[c + 1].title + cellPadding,
              MaxContentWidth(c, visibleStartIndex(st), visibleEndIndex(st))),
         minColumnWidth)

ColumnIndexes == 0 .. (columnCount - 1)
flexColumns == {c \in ColumnIndexes : Columns[c + 1].width = 0}

RECURSIVE SumTo(_, _)
SumTo(f, n) == IF n = 0 THEN 0 ELSE f[n - 1] + SumTo(f, n - 1)

\* A variant of the resolver in which the flexible columns share what the
\* fixed ones leave of the container, whatever their measured widths.
columnWidthsFill(st) ==
    LET fixedWidth == [c \in ColumnIndexes |-> Columns[c + 1].width]
        availableWidth == containerWidth - (IF showScrollbar THEN scrollbarSize ELSE 0)
    IN  [c \in ColumnIndexes |->
            IF c \in flexColumns
            THEN (availableWidth - SumTo(fixedWidth, columnCount))
                    \div Cardinality(flexColumns)
            ELSE fixedWidth[c]]

\* A variant of the resolver that hands out the slack rounded up.
columnWidthsCeil(st) ==
    LET base == [c \in ColumnIndexes |->
                    IF Columns[c + 1].width # 0 THEN Columns[c + 1].width
                    ELSE measureCellWidth(c, st)]
        totalFixedWidth == SumTo(base, columnCount)
        availableWidth == containerWidth - (IF showScrollbar THEN scrollbarSize ELSE 0)
        extraPerColumn ==
            IF flexColumns # {} /\ totalFixedWidth < availableWidth
            THEN (availableWidth - totalFixedWidth + Cardinality(flexColumns) - 1)
                    \div Cardinality(flexColumns)
            ELSE 0
    IN  [c \in ColumnIndexes |->
            IF c \in flexColumns THEN base[c] + extraPerColumn ELSE base[c]]

\* columnWidths of a created context: the map index -> width.
columnWidthsAt(st) ==
    LET base == [c \in ColumnIndexes |->
                    IF Columns[c + 1].width # 0 THEN Columns[c + 1].width
                    ELSE measureCellWidth(c, st)]
        totalFixedWidth == SumTo(base, columnCount)
        availableWidth == containerWidth - (IF showScrollbar THEN scrollbarSize ELSE 0)
        extraPerColumn ==
            IF flexColumns # {} /\ totalFixedWidth < availableWidth
            THEN (availableWidth - totalFixedWidth) \div Cardinality(flexColumns)
            ELSE 0
    IN  [c \in ColumnIndexes |->
            IF c \in flexColumns THEN base[c] + extraPerColumn ELSE base[c]]

\* columnWidths.value (the empty object while there is no context).
columnWidths == IF ctx THEN columnWidthsAt(scrollTop) ELSE << >>

\* totalWidth.value is the sum of columnWidths.value[index]; while there is
\* no context every entry is undefined and the sum is NaN: totalWidthIsNaN
\* says so, and totalWidth is read only where it is false.
totalWidthIsNaN == ~ctx /\ columnCount > 0
totalWidthAt(st) ==
    IF totalWidthIsNaN THEN 0 ELSE SumTo(columnWidthsAt(st), columnCount)
totalWidth == totalWidthAt(scrollTop)

showHorizontalScrollbar == ~totalWidthIsNaN /\ totalWidth > containerWidth

horizontalThumbWidthAt(st) ==
    IF containerWidth = 0 \/ totalWidthIsNaN \/ totalWidthAt(st) = 0
    THEN FInt(minThumbWidth)
    ELSE FMax(FInt(minThumbWidth),
              Norm(containerWidth
                     * (containerWidth - (IF showScrollbar THEN scrollbarSize ELSE 0)),
                   totalWidthAt(st)))
horizontalThumbWidth == horizontalThumbWidthAt(scrollTop)

(***************************************************************************)
(* Hit-testing.                                                            *)
(***************************************************************************)
NoRow == -1
NoColumn == -1

\* A variant of the row computation that leaves scrollTop out.
rowIndexUnscrolled(y) == FFloor(FDiv(FInt(y - headerHeight), FInt(rowHeight)))

\* Math.floor((y - props.headerHeight + scrollTop.value) / props.rowHeight)
rowIndexAt(y) == FFloor(FDiv(FAdd(FInt(y - headerHeight), scrollTop), FInt(rowHeight)))

RECURSIVE NearBorderFrom(_, _, _)
NearBorderFrom(x, i, currentX) ==
    IF i >= columnCount THEN NoColumn
    ELSE IF Abs(x - (currentX + columnWidths[i])) < borderTolerance THEN i
    ELSE NearBorderFrom(x, i + 1, currentX + columnWidths[i])

\* A variant of the border test that looks at x alone.
nearBorderAnyY(x, y) == NearBorderFrom(x, 0, 0)

\* isNearColumnBorder: the column it stores in resizingColumn when it
\* answers true, NoColumn when it answers false.
isNearColumnBorder(x, y) ==
    IF y > headerHeight THEN NoColumn ELSE NearBorderFrom(x, 0, 0)

RECURSIVE ColumnFrom(_, _, _)
ColumnFrom(x, i, currentX) ==
    IF i >= columnCount THEN 0
    ELSE IF x >= currentX /\ x < currentX + columnWidths[i] THEN i
    ELSE ColumnFrom(x, i + 1, currentX + columnWidths[i])

NoCell == [hit |-> FALSE, rowIndex |-> NoRow, columnIndex |-> NoColumn]

getCellFromPoint(x, y) ==
    IF y < headerHeight THEN NoCell
    ELSE [hit |-> TRUE, rowIndex |-> rowIndexAt(y), columnIndex |-> ColumnFrom(x, 0, 0)]

\* getCellFromPoint reads props.columns[columnIndex].key for the record it
\* returns: with no column props.columns[0] is undefined and the read is a
\* TypeError, which ends the handler that called it.
cellThrows(x, y) == y >= headerHeight /\ columnCount = 0

\* The measured width of String(props.data[r]?.[key] ?? ''): a missing row
\* gives the empty string.
cellTextWidth(r, c) == IF r >= 0 /\ r < rowCount THEN data[r + 1][c + 1] ELSE 0

(***************************************************************************)
(* Input sets of the events, and the cap on the widths a resize stores.    *)
(***************************************************************************)
OffsetXs == {1, 101, 301}
OffsetYs == {20, 40, 41, 71, 101}
ThumbDownXs == {0}
ThumbDownYs == {0}
ClientXs == {0, 470}
ClientYs == {-15, 15}
WheelDeltaXs == {-210, 0, 210}
WheelDeltaYs == {-90, 90}
MaxResizedWidth == 150
MaxQueued == 2
MaxBurst == 2

vars == <<data, showEllipsis, domWidth, domHeight, phase, ctx, containerWidth,
          scrollTop, scrollLeft, selectedRow, hoveredRow, resizingColumn, state,
          isDraggingScroll, startDragY, startScrollTop,
          isDraggingHorizontalScroll, startDragX, startScrollLeft,
          tooltipShow, observing, resizeNotified, winListeners, last, layout,
          columns, frameQueue, wheelTimer, surface>>

paintVars == <<frameQueue, wheelTimer, surface>>
hostVars == <<data, showEllipsis, domWidth, domHeight>>
lifeVars == <<phase, ctx, containerWidth, observing, resizeNotified>>
scrollVars == <<scrollTop, scrollLeft>>
pointerVars == <<selectedRow, hoveredRow, tooltipShow>>
resizeVars == <<resizingColumn, state>>
dragVars == <<isDraggingScroll, startDragY, startScrollTop,
              isDraggingHorizontalScroll, startDragX, startScrollLeft>>

Event(op, args) == [op |-> op, args |-> args]

\* No cell is being laid out.
NoLayout == [stage |-> "none"]

InitGrid ==
    /\ data \in AllDatasets \cup {TooltipData}
    /\ showEllipsis \in BOOLEAN
    /\ domWidth \in AllContainerWidths
    /\ domHeight \in AllContainerHeights
    /\ phase = "setup"
    /\ ctx = FALSE
    /\ containerWidth = 0
    /\ scrollTop = FInt(0)
    /\ scrollLeft = FInt(0)
    /\ selectedRow = NoRow
    /\ hoveredRow = NoRow
    /\ resizingColumn = NoColumn
    /\ state = [columnWidths |-> << >>, startX |-> 0, isResizing |-> FALSE]
    /\ isDraggingScroll = FALSE
    /\ startDragY = 0
    /\ startScrollTop = FInt(0)
    /\ isDraggingHorizontalScroll = FALSE
    /\ startDragX = 0
    /\ startScrollLeft = FInt(0)
    /\ tooltipShow = FALSE
    /\ observing = FALSE
    /\ resizeNotified = FALSE
    /\ winListeners = << >>
    /\ last = Event("setup", << >>)
    /\ frameQueue = << >>
    /\ wheelTimer = FALSE
    /\ surface = [width |-> 0, height |-> 0]

Init ==
    /\ InitGrid /\ layout = NoLayout /\ columns = DefaultColumns
    /\ data \in Datasets /\ domWidth \in ContainerWidths /\ domHeight \in ContainerHeights

(***************************************************************************)
(* Drawing: render() asks for an animation frame on every call, initCanvas *)
(* sizes the canvas, debouncedRender arms one 16 ms timer.                 *)
(***************************************************************************)
\* n callbacks of render()
Paints(n) == [i \in 1 .. n |-> "paint"]

\* render(): if (!ctx.value || !tableCanvas.value) return; else one more
\* callback waits for the next frame.  rendersOf(queue, n) is n calls.
rendersOf(queue, n) == IF ctx /\ Attached THEN queue \o Paints(n) ELSE queue
render(queue) == rendersOf(queue, 1)

\* A variant of the wheel handler's drawing that calls render() at once.
renderAtOnce(queue) == render(queue)

\* debouncedRender() at the end of handleWheel: no frame is asked for; the
\* call only clears the timer and arms it again.
debouncedRender(queue) == queue

\* The model keeps at most MaxQueued callbacks waiting.
QueueFits == Len(frameQueue') <= MaxQueued

\* initCanvas: the size it gives the canvas.
canvasSize ==
    [width |-> Max2(totalWidth,
                    containerWidth - (IF showScrollbar THEN scrollbarSize ELSE 0)),
     height |-> domHeight]
initCanvasFrom(s, size) ==
    IF size.width <= 0 \/ size.height <= 0 THEN s ELSE size
initCanvas == IF Attached THEN initCanvasFrom(surface, canvasSize) ELSE surface

\* drawRows: the indexes of the rows it draws, in the order it draws them:
\* from floor(scrollTop / rowHeight), Math.ceil(canvas.height / rowHeight)
\* rows, cut at the number of rows; canvas.height is the canvas's height
\* attribute.  A NaN start makes the loop's test false at once.
drawnRows(st, canvasHeight, rh, n) ==
    IF st = NaN THEN << >>
    ELSE LET startIndex == FFloor(FDiv(st, FInt(rh)))
             visibleRows == FCeil(FDiv(canvasHeight, FInt(rh)))
             endIndex == Min2(startIndex + visibleRows, n)
         IN  [k \in 1 .. (endIndex - startIndex) |-> startIndex + k - 1]

\* One drawing operation of a paint.
Op(kind, r) == [op |-> kind, row |-> r]

\* A variant of the paint that draws the header band before the rows.
paintOpsHeaderFirst(s) ==
    LET rows == drawnRows(scrollTop, FInt(s.height), rowHeight, rowCount)
    IN  <<Op("clear", NoRow)>>
        \o (IF selectedRow # NoRow THEN <<Op("selected", selectedRow)>> ELSE << >>)
        \o (IF hoveredRow # NoRow /\ hoveredRow # selectedRow
            THEN <<Op("hovered", hoveredRow)>> ELSE << >>)
        \o <<Op("header", NoRow)>>
        \o [k \in 1 .. Len(rows) |-> Op("row", rows[k])]

\* The callback of render(): clearRect, drawHighlightRow for the selected
\* row, drawHighlightRow for the hovered row, drawRows, drawHeaders, on a
\* canvas of the size s.
paintOpsOn(s) ==
    LET rows == drawnRows(scrollTop, FInt(s.height), rowHeight, rowCount)
    IN  <<Op("clear", NoRow)>>
        \o (IF selectedRow # NoRow THEN <<Op("selected", selectedRow)>> ELSE << >>)
        \o (IF hoveredRow # NoRow /\ hoveredRow # selectedRow
            THEN <<Op("hovered", hoveredRow)>> ELSE << >>)
        \o [k \in 1 .. Len(rows) |-> Op("row", rows[k])]
        \o <<Op("header", NoRow)>>

\* A callback of initCanvas runs before the last callback of render().
InitBeforeLastPaint(queue) ==
    \E i, j \in DOMAIN queue :
        /\ i < j /\ queue[i] = "init" /\ queue[j] = "paint"
        /\ \A k \in DOMAIN queue : k > j => queue[k] # "paint"

RECURSIVE CountOf(_, _)
CountOf(queue, kind) ==
    IF queue = << >> THEN 0
    ELSE (IF Head(queue) = kind THEN 1 ELSE 0) + CountOf(Tail(queue), kind)

(***************************************************************************)
(* Lifecycle and the host.                                                 *)
(***************************************************************************)
\* onMounted: the tick callback is queued; the test of totalWidth against
\* containerWidth finds NaN > 0 (or 0 > 0) and assigns nothing.
OnMounted ==
    /\ phase = "setup"
    /\ phase' = "mounted"
    /\ last' = Event("mounted", << >>)
    /\ UNCHANGED <<layout, columns, hostVars, ctx, containerWidth, observing, resizeNotified,
                   scrollVars, pointerVars, resizeVars, dragVars, winListeners>>
    /\ UNCHANGED paintVars

\* The nextTick callback of onMounted: tableContainer.value is the element,
\* so the width is read, the ResizeObserver created and started (it reports
\* the element's size once on observe), and initCanvas creates the context.
MountTick ==
    /\ phase = "mounted"
    /\ phase' = "ready"
    /\ containerWidth' = domWidth
    /\ observing' = TRUE
    /\ resizeNotified' = TRUE
    /\ ctx' = TRUE
    /\ last' = Event("tick", << >>)
    /\ UNCHANGED <<layout, columns, hostVars, scrollVars, pointerVars, resizeVars, dragVars,
                   winListeners>>
    /\ wheelTimer' = wheelTimer
    \* render() in the tick, then the watcher of containerWidth
    /\ frameQueue' = frameQueue \o <<"paint", "init">>
    /\ surface' = initCanvasFrom(surface, canvasSize')

\* onUnmounted: disconnects the observer when there is one and removes the
\* four window listeners.  The template refs become null, so a tick callback
\* still queued finds no container and does nothing.
OnUnmounted ==
    /\ phase \in {"mounted", "ready"}
    /\ phase' = "unmounted"
    /\ observing' = FALSE
    /\ resizeNotified' = FALSE
    /\ winListeners' = << >>
    /\ last' = Event("unmounted", << >>)
    /\ UNCHANGED <<layout, columns, hostVars, ctx, containerWidth, scrollVars, pointerVars,
                   resizeVars, dragVars>>
    /\ UNCHANGED paintVars

\* The host replaces props.data; the component has no watcher on it.
SetData ==
    /\ phase # "unmounted"
    /\ \E d \in Datasets \ {data} : data' = d
    /\ last' = Event("setData", << >>)
    /\ UNCHANGED <<layout, columns, showEllipsis, domWidth, domHeight, lifeVars, scrollVars,
                   pointerVars, resizeVars, dragVars, winListeners>>
    /\ UNCHANGED paintVars

\* The host (or the window) resizes the container element.
SetContainerSize ==
    /\ phase # "unmounted"
    /\ \E w \in ContainerWidths, h \in ContainerHeights :
          /\ <<w, h>> # <<domWidth, domHeight>>
          /\ domWidth' = w
          /\ domHeight' = h
    /\ resizeNotified' = observing
    /\ last' = Event("setSize", << >>)
    /\ UNCHANGED <<layout, columns, data, showEllipsis, phase, ctx, containerWidth, observing,
                   scrollVars, pointerVars, resizeVars, dragVars, winListeners>>
    /\ UNCHANGED paintVars

\* The ResizeObserver callback: containerWidth takes the observed width, and
\* state.columnWidths is emptied when no column has a fixed width.
ResizeObserved ==
    /\ observing /\ resizeNotified
    /\ resizeNotified' = FALSE
    /\ containerWidth' = domWidth
    /\ state' = IF \E c \in ColumnIndexes : Columns[c + 1].width # 0
                THEN state
                ELSE [state EXCEPT !.columnWidths = << >>]
    /\ last' = Event("resizeObserved", << >>)
    /\ UNCHANGED <<layout, columns, hostVars, phase, ctx, observing, scrollVars, pointerVars,
                   resizingColumn, dragVars, winListeners>>
    \* the callback's own frame request, then the watcher's when the width
    \* has changed
    /\ frameQueue' = frameQueue \o
          (IF containerWidth # domWidth THEN <<"init", "init">> ELSE <<"init">>)
    /\ QueueFits
    /\ UNCHANGED <<wheelTimer, surface>>

(***************************************************************************)
(* The handlers' results.                                                  *)
(***************************************************************************)
\* Math.max(0, Math.min(newScroll, maxScroll)), NaN passing through.
clampScroll(new, maxScroll) ==
    IF new = NaN THEN NaN ELSE FMax(FInt(0), FMin(new, FInt(maxScroll)))

\* A variant of the selection without the test against props.data.length
\* (the earlier CanvasTable.vue assigns the row index as computed).
selectUnchecked(y) ==
    IF y > headerHeight THEN rowIndexAt(y) ELSE selectedRow

\* handleMouseDown below the header: selectedRow after the click.
selectOnMouseDown(y) ==
    IF y > headerHeight
    THEN IF rowIndexAt(y) < rowCount THEN rowIndexAt(y) ELSE NoRow
    ELSE selectedRow

handleMouseDown(x, y) ==
    IF isNearColumnBorder(x, y) # NoColumn
    THEN /\ resizingColumn' = isNearColumnBorder(x, y)
         /\ state' = [state EXCEPT !.isResizing = TRUE, !.startX = x]
         /\ UNCHANGED selectedRow
    ELSE /\ selectedRow' = selectOnMouseDown(y)
         /\ UNCHANGED <<resizingColumn, state>>

\* (state.columnWidths[resizingColumn] || 150) + diff
resizedWidth(x) ==
    LET old == IF resizingColumn \in DOMAIN state.columnWidths
               THEN state.columnWidths[resizingColumn] ELSE 0
    IN  (IF old = 0 THEN minColumnWidth ELSE old) + (x - state.startX)

hoverOnMouseMove(x, y) ==
    LET cell == getCellFromPoint(x, y)
    IN  IF cell.hit /\ cell.rowIndex < rowCount THEN cell.rowIndex ELSE NoRow

tooltipOnMouseMove(x, y) ==
    LET cell == getCellFromPoint(x, y)
    IN  /\ cell.hit
        /\ showEllipsis
        /\ cellTextWidth(cell.rowIndex, cell.columnIndex)
             > columnWidths[cell.columnIndex] - 20

\* handleMouseMove ends on getCellFromPoint's TypeError.
mouseMoveThrows(x, y) ==
    ~(state.isResizing /\ resizingColumn # NoColumn) /\ cellThrows(x, y)

handleMouseMove(x, y) ==
    IF state.isResizing /\ resizingColumn # NoColumn
    THEN /\ Abs(resizedWidth(x)) <= MaxResizedWidth
         /\ state' = [state EXCEPT
                !.columnWidths =
                    [c \in DOMAIN state.columnWidths \cup {resizingColumn} |->
                        IF c = resizingColumn THEN resizedWidth(x)
                        ELSE state.columnWidths[c]],
                !.startX = x]
         /\ UNCHANGED <<hoveredRow, tooltipShow>>
    ELSE IF cellThrows(x, y)
    THEN UNCHANGED <<hoveredRow, tooltipShow, state>>
    ELSE /\ hoveredRow' = hoverOnMouseMove(x, y)
         /\ tooltipShow' = tooltipOnMouseMove(x, y)
         /\ UNCHANGED state

\* A variant of the drag-move that starts from the current scrollTop instead
\* of the one captured at the mousedown on the thumb.
scrollMoveTopFromCurrent(cy) ==
    LET containerHeight == domHeight - headerHeight
        maxScroll == contentHeight - containerHeight
    IN  IF ~isDraggingScroll \/ ~Attached THEN scrollTop
        ELSE IF thumbHeight = Infinity THEN scrollTop
        ELSE IF FLe(FSub(FInt(containerHeight), thumbHeight), FInt(0)) THEN scrollTop
        ELSE clampScroll(
                FAdd(scrollTop,
                     FMul(FInt(cy - startDragY),
                          FDiv(FInt(maxScroll),
                               FSub(FInt(containerHeight), thumbHeight)))),
                maxScroll)

\* handleScrollMove: scrollTop after a window mousemove at clientY = cy.
scrollMoveTop(cy) ==
    LET containerHeight == domHeight - headerHeight
        maxScroll == contentHeight - containerHeight
    IN  IF ~isDraggingScroll \/ ~Attached THEN scrollTop
        ELSE IF thumbHeight = Infinity THEN scrollTop
        ELSE IF FLe(FSub(FInt(containerHeight), thumbHeight), FInt(0)) THEN scrollTop
        ELSE clampScroll(
                FAdd(startScrollTop,
                     FMul(FInt(cy - startDragY),
                          FDiv(FInt(maxScroll),
                               FSub(FInt(containerHeight), thumbHeight)))),
                maxScroll)

\* handleHorizontalScrollMove: scrollLeft after a window mousemove at
\* clientX = cx, the widths being those of scrollTop = st.  A track with no
\* room left makes scrollRatio Infinity, and 0 * Infinity is NaN.
horizontalScrollMoveLeft(cx, st) ==
    LET deltaX == cx - startDragX
        scrollableWidth ==
            FSub(FInt(containerWidth - (IF showScrollbar THEN scrollbarSize ELSE 0)),
                 horizontalThumbWidthAt(st))
        maxScroll == totalWidthAt(st) - containerWidth
    IN  IF ~isDraggingHorizontalScroll THEN scrollLeft
        ELSE IF totalWidthIsNaN THEN NaN
        ELSE IF maxScroll <= 0 THEN scrollLeft
        ELSE IF startScrollLeft = NaN THEN NaN
        ELSE IF scrollableWidth = FInt(0)
             THEN IF deltaX > 0 THEN FInt(maxScroll)
                  ELSE IF deltaX < 0 THEN FInt(0) ELSE NaN
        ELSE clampScroll(
                FAdd(startScrollLeft,
                     FMul(FInt(deltaX), FDiv(FInt(maxScroll), scrollableWidth))),
                maxScroll)

\* window.addEventListener / removeEventListener of an axis's mousemove and
\* mouseup pair; adding a listener that is registered changes nothing.
IsRegistered(axis) == \E i \in DOMAIN winListeners : winListeners[i] = axis
addDragListeners(axis) ==
    IF IsRegistered(axis) THEN winListeners ELSE Append(winListeners, axis)
\* A variant of the removal that leaves the registrations as they are.
keepDragListeners(listeners, axis) == listeners

removeDragListeners(listeners, axis) ==
    SelectSeq(listeners, LAMBDA a : a # axis)

\* handleScrollMove and handleHorizontalScrollMove pass their early returns
\* (and so go on to call render()).
scrollMoveRuns ==
    /\ isDraggingScroll /\ Attached
    /\ thumbHeight # Infinity
    /\ ~FLe(FSub(FInt(domHeight - headerHeight), thumbHeight), FInt(0))
horizontalScrollMoveRuns(st) ==
    /\ isDraggingHorizontalScroll
    /\ totalWidthIsNaN \/ totalWidthAt(st) - containerWidth > 0

\* The number of render() calls of the window's mousemove listeners.
windowMouseMoveRenders(cx, cy) ==
    LET topAfter == IF IsRegistered("v") THEN scrollMoveTop(cy) ELSE scrollTop
        seenByH == IF IsRegistered("v") /\ winListeners[1] = "v"
                   THEN topAfter ELSE scrollTop
    IN  (IF IsRegistered("v") /\ scrollMoveRuns THEN 1 ELSE 0)
        + (IF IsRegistered("h") /\ horizontalScrollMoveRuns(seenByH) THEN 1 ELSE 0)

\* The window's mousemove listeners, in the order they were registered.
windowMouseMove(cx, cy) ==
    LET topAfter == IF IsRegistered("v") THEN scrollMoveTop(cy) ELSE scrollTop
        seenByH == IF IsRegistered("v") /\ winListeners[1] = "v"
                   THEN topAfter ELSE scrollTop
    IN  /\ scrollTop' = topAfter
        /\ scrollLeft' = IF IsRegistered("h")
                         THEN horizontalScrollMoveLeft(cx, seenByH)
                         ELSE scrollLeft

\* The window's mouseup listeners: handleScrollEnd, handleHorizontalScrollEnd.
windowMouseUp ==
    /\ isDraggingScroll' = IF IsRegistered("v") THEN FALSE ELSE isDraggingScroll
    /\ isDraggingHorizontalScroll' =
          IF IsRegistered("h") THEN FALSE ELSE isDraggingHorizontalScroll
    /\ winListeners' =
          removeDragListeners(removeDragListeners(winListeners, "v"), "h")
    /\ UNCHANGED <<startDragY, startScrollTop, startDragX, startScrollLeft>>

\* A variant of the routing test that leaves the overflow test out.
wheelScrollsLeftOnDeltaX(shift, dx) == shift \/ dx # 0

\* handleWheel: the offsets after a wheel event.
wheelScrollsLeft(shift, dx) ==
    shift \/ (dx # 0 /\ ~totalWidthIsNaN /\ totalWidth > containerWidth)

handleWheel(shift, dx, dy) ==
    IF wheelScrollsLeft(shift, dx)
    THEN /\ scrollLeft' =
              IF totalWidthIsNaN \/ scrollLeft = NaN THEN NaN
              ELSE clampScroll(FAdd(scrollLeft, FInt(IF dx # 0 THEN dx ELSE dy)),
                               totalWidth - containerWidth)
         /\ UNCHANGED scrollTop
    ELSE /\ scrollTop' =
              clampScroll(FAdd(scrollTop, FInt(dy)),
                          contentHeight - (domHeight - headerHeight))
         /\ UNCHANGED scrollLeft

(***************************************************************************)
(* The events.  The canvas and the two thumbs take events while the        *)
(* component is mounted and drawn; a mousemove or mouseup on the canvas    *)
(* bubbles to the window's listeners after the canvas's own handler, and   *)
(* one that happens anywhere else reaches the window's listeners alone.    *)
(***************************************************************************)
Ready == phase = "ready"

MouseDownCanvasAt(xs, ys) ==
    /\ Ready
    /\ \E x \in xs, y \in ys :
          /\ handleMouseDown(x, y)
          /\ frameQueue' = IF isNearColumnBorder(x, y) = NoColumn /\ y > headerHeight
                           THEN render(frameQueue) ELSE frameQueue
          /\ last' = Event("mousedown", <<x, y>>)
    /\ UNCHANGED <<layout, columns, hostVars, lifeVars, scrollVars, hoveredRow, tooltipShow,
                   dragVars, winListeners>>
    /\ QueueFits
    /\ UNCHANGED <<wheelTimer, surface>>

MouseDownCanvas == MouseDownCanvasAt(OffsetXs, OffsetYs)

ListenerClientXs == IF IsRegistered("h") THEN ClientXs ELSE {0}
ListenerClientYs == IF IsRegistered("v") THEN ClientYs ELSE {0}

MouseMoveCanvasAt(xs, ys) ==
    /\ Ready
    /\ \E x \in xs, y \in ys,
          cx \in ListenerClientXs, cy \in ListenerClientYs :
          /\ handleMouseMove(x, y)
          /\ windowMouseMove(cx, cy)
          /\ frameQueue' = rendersOf(frameQueue,
                                     (IF mouseMoveThrows(x, y) THEN 0 ELSE 1)
                                       + windowMouseMoveRenders(cx, cy))
          /\ last' = Event(IF mouseMoveThrows(x, y) THEN "mousemoveThrew"
                           ELSE "mousemove", <<x, y>>)
    /\ UNCHANGED <<layout, columns, hostVars, lifeVars, selectedRow, resizingColumn, dragVars,
                   winListeners>>
    /\ QueueFits
    /\ UNCHANGED <<wheelTimer, surface>>

MouseMoveCanvas == MouseMoveCanvasAt(OffsetXs, OffsetYs)

MouseMoveElsewhere ==
    /\ Ready
    /\ \E cx \in ListenerClientXs, cy \in ListenerClientYs :
          /\ windowMouseMove(cx, cy)
          /\ frameQueue' = rendersOf(frameQueue, windowMouseMoveRenders(cx, cy))
          /\ last' = Event("mousemoveElsewhere", <<cx, cy>>)
    /\ UNCHANGED <<layout, columns, hostVars, lifeVars, pointerVars, resizeVars, dragVars,
                   winListeners>>
    /\ QueueFits
    /\ UNCHANGED <<wheelTimer, surface>>

\* handleMouseUp, then the window's mouseup listeners.
MouseUpCanvas ==
    /\ Ready
    /\ state' = [state EXCEPT !.isResizing = FALSE]
    /\ resizingColumn' = NoColumn
    /\ windowMouseUp
    /\ last' = Event("mouseup", << >>)
    /\ UNCHANGED <<layout, columns, hostVars, lifeVars, scrollVars, pointerVars>>
    /\ UNCHANGED paintVars

MouseUpElsewhere ==
    /\ Ready
    /\ windowMouseUp
    /\ last' = Event("mouseupElsewhere", << >>)
    /\ UNCHANGED <<layout, columns, hostVars, lifeVars, scrollVars, pointerVars, resizeVars>>
    /\ UNCHANGED paintVars

\* handleMouseOut
MouseOutCanvas ==
    /\ Ready
    /\ tooltipShow' = FALSE
    /\ hoveredRow' = NoRow
    /\ last' = Event("mouseout", << >>)
    /\ UNCHANGED <<layout, columns, hostVars, lifeVars, scrollVars, selectedRow, resizeVars,
                   dragVars, winListeners>>
    /\ frameQueue' = render(frameQueue)
    /\ QueueFits
    /\ UNCHANGED <<wheelTimer, surface>>

\* The wheel events delivered one after the other up to now with no other
\* event in between (history; counted up to MaxBurst).
wheelBurst == IF last.op = "wheel" THEN last.args[4] ELSE 0

WheelCanvasWith(shifts, dxs, dys) ==
    /\ Ready
    /\ \E shift \in shifts, dx \in dxs, dy \in dys :
          /\ handleWheel(shift, dx, dy)
          /\ last' = Event("wheel", <<shift, dx, dy, Min2(wheelBurst + 1, MaxBurst)>>)
    /\ UNCHANGED <<layout, columns, hostVars, lifeVars, pointerVars, resizeVars, dragVars,
                   winListeners>>
    \* debouncedRender(): the timer is cleared and armed again
    /\ wheelTimer' = TRUE
    /\ frameQueue' = debouncedRender(frameQueue)
    /\ QueueFits
    /\ UNCHANGED surface

WheelCanvas == WheelCanvasWith(BOOLEAN, WheelDeltaXs, WheelDeltaYs)

\* handleContextMenu: every cell record getCellFromPoint returns is emitted
\* as 'context-menu'; the event records the record emitted (NoCell: none).
ContextMenuCanvasAt(xs, ys) ==
    /\ Ready
    /\ \E x \in xs, y \in ys :
          last' = IF cellThrows(x, y) THEN Event("contextmenuThrew", <<x, y>>)
                  ELSE Event("contextmenu", <<x, y, getCellFromPoint(x, y)>>)
    /\ UNCHANGED <<layout, columns, hostVars, lifeVars, scrollVars, pointerVars,
                   resizeVars, dragVars, winListeners>>
    /\ UNCHANGED paintVars

ContextMenuCanvas == ContextMenuCanvasAt(OffsetXs, OffsetYs)

\* handleScrollStart: a mousedown on the vertical thumb, which the template
\* renders while showScrollbar holds.
MouseDownThumb ==
    /\ Ready /\ showScrollbar
    /\ \E cy \in ThumbDownYs : startDragY' = cy
    /\ last' = Event("thumbdown", << >>)
    /\ isDraggingScroll' = TRUE
    /\ startScrollTop' = scrollTop
    /\ winListeners' = addDragListeners("v")
    /\ UNCHANGED <<layout, columns, hostVars, lifeVars, scrollVars, pointerVars, resizeVars,
                   isDraggingHorizontalScroll, startDragX, startScrollLeft>>
    /\ UNCHANGED paintVars

\* handleHorizontalScrollStart: a mousedown on the horizontal thumb, which
\* the template renders while showHorizontalScrollbar holds.
MouseDownHorizontalThumb ==
    /\ Ready /\ showHorizontalScrollbar
    /\ \E cx \in ThumbDownXs : startDragX' = cx
    /\ last' = Event("hthumbdown", << >>)
    /\ isDraggingHorizontalScroll' = TRUE
    /\ startScrollLeft' = scrollLeft
    /\ winListeners' = addDragListeners("h")
    /\ UNCHANGED <<layout, columns, hostVars, lifeVars, scrollVars, pointerVars, resizeVars,
                   isDraggingScroll, startDragY, startScrollTop>>
    /\ UNCHANGED paintVars

\* An animation frame: every callback that waits is run.  A callback of
\* render() paints (clear, highlights, rows, headers) from the state as it
\* is now; after onUnmounted tableCanvas.value is null and it fails on
\* tableCanvas.value.width.  A callback of the watcher or of the observer
\* runs initCanvas() and render().  The event records the paints done, the
\* paints failed and the drawing operations of the last paint done.
AnimationFrame ==
    /\ frameQueue # << >>
    /\ surface' = IF CountOf(frameQueue, "init") > 0 THEN initCanvas ELSE surface
    /\ frameQueue' = rendersOf(<< >>, CountOf(frameQueue, "init"))
    /\ last' = Event("frame",
                     IF Attached
                     THEN <<CountOf(frameQueue, "paint"), 0,
                            IF CountOf(frameQueue, "paint") = 0 THEN << >>
                            ELSE paintOpsOn(IF InitBeforeLastPaint(frameQueue)
                                            THEN initCanvas ELSE surface)>>
                     ELSE <<0, CountOf(frameQueue, "paint"), << >>>>)
    /\ UNCHANGED <<layout, columns, hostVars, lifeVars, scrollVars, pointerVars,
                   resizeVars, dragVars, winListeners, wheelTimer>>

\* debouncedRender's timer fires 16 ms after the last wheel event.
DebounceFires ==
    /\ wheelTimer
    /\ wheelTimer' = FALSE
    /\ frameQueue' = render(frameQueue)
    /\ QueueFits
    /\ last' = Event("debounce", <<wheelBurst>>)
    /\ UNCHANGED <<layout, columns, hostVars, lifeVars, scrollVars, pointerVars,
                   resizeVars, dragVars, winListeners, surface>>

Next ==
    \/ AnimationFrame
    \/ DebounceFires
    \/ OnMounted
    \/ MountTick
    \/ OnUnmounted
    \/ SetData
    \/ SetContainerSize
    \/ ResizeObserved
    \/ MouseDownCanvas
    \/ MouseMoveCanvas
    \/ MouseMoveElsewhere
    \/ MouseUpCanvas
    \/ MouseUpElsewhere
    \/ MouseOutCanvas
    \/ WheelCanvas
    \/ ContextMenuCanvas
    \/ MouseDownThumb
    \/ MouseDownHorizontalThumb

Spec == Init /\ [][Next]_vars

\* A fixed dataset, column list and container: only scroll events.
InitScroll == Init /\ showEllipsis = FALSE
NextScroll ==
    \/ AnimationFrame
    \/ DebounceFires
    \/ OnMounted
    \/ MountTick
    \/ WheelCanvas
    \/ MouseDownThumb
    \/ MouseDownHorizontalThumb
    \/ MouseMoveElsewhere
    \/ MouseUpElsewhere
SpecScroll == InitScroll /\ [][NextScroll]_vars

NextHost ==
    \/ AnimationFrame
    \/ DebounceFires
    \/ OnMounted
    \/ MountTick
    \/ SetData
    \/ SetContainerSize
    \/ ResizeObserved
    \/ WheelCanvas
SpecHost == InitScroll /\ [][NextHost]_vars

\* The pointer over the rows (below the header band), vertical wheel events
\* and the host replacing the dataset.
BodyYs == {y \in OffsetYs : y > headerHeight}
HeaderYs == {y \in OffsetYs : y <= headerHeight}
MouseDownBody == MouseDownCanvasAt(OffsetXs, BodyYs)
WheelVertical == WheelCanvasWith({FALSE}, {0}, WheelDeltaYs)
NextPointer ==
    \/ AnimationFrame
    \/ DebounceFires
    \/ OnMounted
    \/ MountTick
    \/ SetData
    \/ MouseDownBody
    \/ MouseMoveCanvas
    \/ MouseOutCanvas
    \/ WheelVertical
SpecPointer == Init /\ [][NextPointer]_vars

\* The wheel's timer in time: 16 ms pass with no wheel event and the armed
\* timer is due; a wheel event clears it and arms a new one, which is not
\* due.  Only wheel events that move an offset are delivered.
SixteenMsPass ==
    /\ wheelTimer /\ last.op # "timerDue"
    /\ last' = Event("timerDue", << >>)
    /\ UNCHANGED <<layout, columns, hostVars, lifeVars, scrollVars, pointerVars,
                   resizeVars, dragVars, winListeners, paintVars>>
DebounceDue == last.op = "timerDue" /\ DebounceFires
WheelThatScrolls == WheelVertical /\ <<scrollTop, scrollLeft>>' # <<scrollTop, scrollLeft>>
NextWheelLive ==
    \/ AnimationFrame
    \/ DebounceDue
    \/ SixteenMsPass
    \/ OnMounted
    \/ MountTick
    \/ WheelThatScrolls
\* The browser runs a requested frame and a due timer and the component
\* gets mounted; and time goes on: while the armed timer is not yet due,
\* either the next wheel event arrives or 16 ms pass without one.
TimerWaits == wheelTimer /\ last.op # "timerDue"
TimeGoesOn ==
    \/ []<>(~TimerWaits)
    \/ []<><<SixteenMsPass \/ WheelThatScrolls>>_vars
SpecWheelLive ==
    /\ InitScroll /\ [][NextWheelLive]_vars
    /\ WF_vars(AnimationFrame) /\ WF_vars(DebounceDue)
    /\ WF_vars(OnMounted) /\ WF_vars(MountTick)
    /\ TimeGoesOn

\* The teardown with a frame asked for or the wheel's timer armed.
NextTeardown ==
    \/ AnimationFrame
    \/ DebounceFires
    \/ OnMounted
    \/ MountTick
    \/ OnUnmounted
    \/ WheelVertical
    \/ MouseOutCanvas
SpecTeardown == InitScroll /\ [][NextTeardown]_vars

\* The tooltip: the pointer over the canvas in both text modes, with a
\* first-column text wider than its cell's room and with a first column
\* narrower than the padding of a cell.
InitTooltip ==
    /\ InitGrid /\ layout = NoLayout
    /\ columns \in {DefaultColumns, <<NarrowColumn, FlexColumn>>}
    /\ data \in {TooltipData, LongData}
    /\ domWidth = 200 /\ domHeight \in ContainerHeights
NextTooltip ==
    \/ AnimationFrame
    \/ DebounceFires
    \/ OnMounted
    \/ MountTick
    \/ MouseMoveCanvas
    \/ MouseOutCanvas
    \/ WheelVertical
SpecTooltip == InitTooltip /\ [][NextTooltip]_vars

\* The drags: the pointer on the header band, on the thumbs and elsewhere.
MouseDownHeader == MouseDownCanvasAt(OffsetXs, HeaderYs)
MouseMoveHeader == MouseMoveCanvasAt(OffsetXs, {y \in OffsetYs : y < headerHeight})
NextDrag ==
    \/ AnimationFrame
    \/ OnMounted
    \/ MountTick
    \/ OnUnmounted
    \/ MouseDownHeader
    \/ MouseMoveHeader
    \/ MouseUpCanvas
    \/ MouseUpElsewhere
    \/ MouseMoveElsewhere
    \/ MouseDownThumb
    \/ MouseDownHorizontalThumb
SpecDrag == InitScroll /\ [][NextDrag]_vars

\* The scrollbar drags and the teardown, with the starts and ends of a
\* column resize but without its moves.
NextListeners ==
    \/ AnimationFrame
    \/ OnMounted
    \/ MountTick
    \/ OnUnmounted
    \/ MouseDownHeader
    \/ MouseUpCanvas
    \/ MouseUpElsewhere
    \/ MouseMoveElsewhere
    \/ MouseDownThumb
    \/ MouseDownHorizontalThumb
SpecListeners == InitScroll /\ [][NextListeners]_vars

\* The wheel alone: every routing of a wheel event, the timer and the frames,
\* after the observer's report of the container's first size.
NextWheel ==
    \/ AnimationFrame
    \/ DebounceFires
    \/ OnMounted
    \/ MountTick
    \/ ResizeObserved
    \/ WheelCanvas
SpecWheel == InitScroll /\ [][NextWheel]_vars

\* The vertical thumb's drag with wheel events during it.
NextThumb ==
    \/ AnimationFrame
    \/ DebounceFires
    \/ OnMounted
    \/ MountTick
    \/ WheelVertical
    \/ MouseDownThumb
    \/ MouseMoveElsewhere
    \/ MouseUpElsewhere
SpecThumb == InitScroll /\ [][NextThumb]_vars

\* The vertical scrollbar over every dataset, in a container of the usual
\* height and in one whose rows have less room than the shortest thumb.
InitTrack ==
    /\ InitGrid /\ layout = NoLayout /\ columns = DefaultColumns
    /\ showEllipsis = FALSE /\ domWidth = 200 /\ data \in AllDatasets
SpecTrack == InitTrack /\ [][NextThumb]_vars

\* The column resize: the pointer pressed anywhere on the canvas, moved over
\* the header band, released on the canvas, and leaving the canvas.
NextResize ==
    \/ AnimationFrame
    \/ OnMounted
    \/ MountTick
    \/ MouseDownCanvas
    \/ MouseMoveHeader
    \/ MouseUpCanvas
    \/ MouseOutCanvas
SpecResize == InitScroll /\ [][NextResize]_vars

\* The scrollbar drags and the wheel in the narrow container.
InitNarrow ==
    /\ InitGrid /\ layout = NoLayout /\ columns = DefaultColumns
    /\ data \in Datasets /\ showEllipsis = FALSE /\ domWidth \in NarrowWidths
    /\ domHeight \in ContainerHeights
NextNarrow ==
    \/ AnimationFrame
    \/ DebounceFires
    \/ OnMounted
    \/ MountTick
    \/ WheelVertical
    \/ MouseDownThumb
    \/ MouseDownHorizontalThumb
    \/ MouseMoveElsewhere
    \/ MouseUpElsewhere
SpecNarrow == InitNarrow /\ [][NextNarrow]_vars

\* Hit-testing over every column list and dataset: the pointer moves and
\* asks for the context menu, the wheel scrolls.
InitColumns ==
    /\ InitGrid /\ layout = NoLayout /\ columns \in ColumnLists
    /\ showEllipsis = FALSE /\ domWidth \in ContainerWidths /\ domHeight \in ContainerHeights
    /\ data \in AllDatasets
NextHit ==
    \/ AnimationFrame
    \/ DebounceFires
    \/ OnMounted
    \/ MountTick
    \/ MouseMoveCanvas
    \/ ContextMenuCanvas
    \/ WheelVertical
SpecHit == InitColumns /\ [][NextHit]_vars

\* The width resolver over every column list, dataset and container width:
\* the host resizes the container and the wheel moves the rows measured.
NextColumns ==
    \/ AnimationFrame
    \/ DebounceFires
    \/ OnMounted
    \/ MountTick
    \/ SetContainerSize
    \/ ResizeObserved
    \/ WheelVertical
SpecColumns == InitColumns /\ [][NextColumns]_vars

\* The width resolver in a container whose width leaves the flexible
\* columns a slack that does not divide evenly.
InitSlack ==
    /\ InitGrid /\ layout = NoLayout /\ columns \in ColumnLists
    /\ showEllipsis = FALSE /\ domWidth \in OddWidths /\ domHeight \in ContainerHeights
    /\ data \in AllDatasets
NextSlack ==
    \/ AnimationFrame
    \/ DebounceFires
    \/ OnMounted
    \/ MountTick
    \/ WheelVertical
SpecSlack == InitSlack /\ [][NextSlack]_vars

(***************************************************************************)
(* Text layout of one cell: the two ways drawRows draws a cell's text,     *)
(* applied to a text, the room the column leaves it (its width less the    *)
(* padding) and a row height drawn from bounded sets.                      *)
(***************************************************************************)
MaxTextLen == 4
TextAlphabet == {"w", " ", "H"}
Texts == UNION {[1 .. n -> TextAlphabet] : n \in 0 .. MaxTextLen}
CellRooms == {10, 12, 20, 30}
RowHeights == {30, 40, 60}

gridVars == <<columns, frameQueue, wheelTimer, surface, data, showEllipsis, domWidth, domHeight, phase, ctx, containerWidth,
              scrollTop, scrollLeft, selectedRow, hoveredRow, resizingColumn,
              state, isDraggingScroll, startDragY, startScrollTop,
              isDraggingHorizontalScroll, startDragX, startScrollLeft,
              tooltipShow, observing, resizeNotified, winListeners, last>>

InitText ==
    /\ InitGrid
    /\ data = LongData /\ showEllipsis = FALSE /\ domWidth = 200 /\ domHeight \in ContainerHeights
    /\ columns = DefaultColumns
    /\ \E t \in Texts, w \in CellRooms, rh \in RowHeights :
          layout = [stage |-> "input", text |-> t, maxWidth |-> w, rowHeight |-> rh]

\* The single-line mode: getEllipsisText on the cell's text.
TruncateCell ==
    /\ layout.stage = "input"
    /\ layout' = [stage |-> "truncated", text |-> layout.text,
                  maxWidth |-> layout.maxWidth, rowHeight |-> layout.rowHeight,
                  out |-> getEllipsisText(layout.text, layout.maxWidth)]
    /\ UNCHANGED gridVars

\* getEllipsisText on its own result, with the same room.
TruncateAgain ==
    /\ layout.stage = "truncated"
    /\ layout' = [stage |-> "truncatedTwice", text |-> layout.text,
                  maxWidth |-> layout.maxWidth, rowHeight |-> layout.rowHeight,
                  out |-> layout.out,
                  again |-> getEllipsisText(layout.out, layout.maxWidth)]
    /\ UNCHANGED gridVars

\* The multi-line mode: the lines of the cell.
WrapCell ==
    /\ layout.stage = "input"
    /\ layout' = [stage |-> "wrapped", text |-> layout.text,
                  maxWidth |-> layout.maxWidth, rowHeight |-> layout.rowHeight,
                  wrap |-> wrapLines(layout.text, layout.maxWidth, layout.rowHeight)]
    /\ UNCHANGED gridVars

NextText == TruncateCell \/ TruncateAgain \/ WrapCell
SpecText == InitText /\ [][NextText]_vars

(***************************************************************************)
(* The rows of one paint: drawRows applied to a row height, a header       *)
(* height, a container height, a device pixel ratio, a number of rows and  *)
(* a scrollTop within its range, drawn from bounded sets.  initCanvas      *)
(* gives the canvas the height attribute height * dpr.                     *)
(***************************************************************************)
PaintRowHeights == {30, 80}
PaintHeaderHeights == {40}
PaintHeights == {130, 200}
PaintRatios == {1, 2}
PaintRowCounts == {0, 2, 6}
PaintScrollTops == {0, 15, 30, 45, 79, 90, 160, 390}

InitPaint ==
    /\ InitGrid
    /\ data = LongData /\ showEllipsis = FALSE /\ domWidth = 200 /\ domHeight \in ContainerHeights
    /\ columns = DefaultColumns
    /\ \E rh \in PaintRowHeights, hh \in PaintHeaderHeights, h \in PaintHeights,
          dpr \in PaintRatios, n \in PaintRowCounts, st \in PaintScrollTops :
          /\ st <= Max2(0, n * rh - (h - hh))
          /\ layout = [stage |-> "toPaint", rowHeight |-> rh, headerHeight |-> hh,
                       height |-> h, dpr |-> dpr, rowCount |-> n, scrollTop |-> st]

\* drawRows on the canvas initCanvas has sized.
DrawRows ==
    /\ layout.stage = "toPaint"
    /\ layout' = [layout EXCEPT
                    !.stage = "painted"] @@
                  [rows |-> drawnRows(FInt(layout.scrollTop),
                                      FInt(layout.height * layout.dpr),
                                      layout.rowHeight, layout.rowCount)]
    /\ UNCHANGED gridVars

NextPaint == DrawRows
SpecPaint == InitPaint /\ [][NextPaint]_vars

(***************************************************************************)
(* The column resize of the earlier grid (CanvasTable.vue), whose layout,  *)
(* hit-testing and painting read state.columnWidths[i] || 150.  The job    *)
(* holds state.columnWidths (a column without an entry is undefined),      *)
(* state.startX, state.isResizing and resizingColumn, and remembers the x  *)
(* and the effective width at the mousedown that began the resize.         *)
(***************************************************************************)
defaultColumnWidth == 150
MaxEarlyWidth == 300
EarlyColumns == {0, 1}
EarlyXs == {1, 51, 151, 301}

\* state.value.columnWidths[i] || 150
effectiveWidth(widths, i) ==
    IF i \in DOMAIN widths /\ widths[i] # 0 THEN widths[i] ELSE defaultColumnWidth

RECURSIVE earlyBorderFrom(_, _, _, _)
earlyBorderFrom(widths, x, i, currentX) ==
    IF i \notin EarlyColumns THEN NoColumn
    ELSE IF Abs(x - (currentX + effectiveWidth(widths, i))) < borderTolerance THEN i
    ELSE earlyBorderFrom(widths, x, i + 1, currentX + effectiveWidth(widths, i))

InitEarly ==
    /\ InitGrid
    /\ data = LongData /\ showEllipsis = FALSE /\ domWidth = 200 /\ domHeight \in ContainerHeights
    /\ columns = DefaultColumns
    /\ layout = [stage |-> "early", columnWidths |-> << >>, startX |-> 0,
                 isResizing |-> FALSE, resizingColumn |-> NoColumn,
                 downX |-> 0, downWidth |-> 0, moves |-> 0]

\* handleMouseDown on the header band: isNearColumnBorder stores the column
\* and the resize begins; elsewhere on the band nothing changes.
EarlyMouseDownHeader ==
    /\ layout.stage = "early"
    /\ \E x \in EarlyXs :
          LET c == earlyBorderFrom(layout.columnWidths, x, 0, 0)
          IN  /\ c # NoColumn
              /\ layout' = [layout EXCEPT !.isResizing = TRUE, !.startX = x,
                                          !.resizingColumn = c, !.downX = x,
                                          !.downWidth = effectiveWidth(layout.columnWidths, c),
                                          !.moves = 0]
    /\ UNCHANGED gridVars

\* handleMouseMove, resize branch.
EarlyMouseMove ==
    /\ layout.stage = "early"
    /\ layout.isResizing /\ layout.resizingColumn # NoColumn
    /\ \E x \in EarlyXs :
          LET c == layout.resizingColumn
              width == effectiveWidth(layout.columnWidths, c) + (x - layout.startX)
          IN  /\ Abs(width) <= MaxEarlyWidth
              /\ layout' = [layout EXCEPT
                               !.columnWidths =
                                   [i \in DOMAIN layout.columnWidths \cup {c} |->
                                       IF i = c THEN width ELSE layout.columnWidths[i]],
                               !.startX = x,
                               !.moves = Min2(layout.moves + 1, 2)]
    /\ UNCHANGED gridVars

\* handleMouseUp
EarlyMouseUp ==
    /\ layout.stage = "early"
    /\ layout' = [layout EXCEPT !.isResizing = FALSE, !.resizingColumn = NoColumn]
    /\ UNCHANGED gridVars

NextEarly == EarlyMouseDownHeader \/ EarlyMouseMove \/ EarlyMouseUp
SpecEarly == InitEarly /\ [][NextEarly]_vars

(***************************************************************************)
(* The ranges the handlers clamp the offsets to.                           *)
(***************************************************************************)
\* handleWheel / handleScrollMove: contentHeight - containerHeight
maxScrollTop == contentHeight - (domHeight - headerHeight)
\* handleWheel / handleHorizontalScrollMove: totalWidth - containerWidth,
\* with the widths resolved for the current scrollTop.
maxScrollLeft == totalWidth - containerWidth

ScrollInRange ==
    /\ scrollTop # NaN
    /\ scrollLeft # NaN
    /\ FLe(FInt(0), scrollTop)
    /\ FLe(scrollTop, FInt(Max2(0, maxScrollTop)))
    /\ FLe(FInt(0), scrollLeft)
    /\ FLe(scrollLeft, FInt(Max2(0, maxScrollLeft)))

NoDragActive ==
    /\ ~state.isResizing
    /\ ~isDraggingScroll
    /\ ~isDraggingHorizontalScroll

(***************************************************************************)
(* Properties.                                                             *)
(***************************************************************************)

\* C1: with the dataset, the columns and the container size fixed, after
\* every wheel event and every scrollbar drag-move scrollTop lies in
\* [0, max(0, rowCount*rowHeight - viewportHeight)] and scrollLeft in
\* [0, max(0, totalWidth - containerWidth)], totalWidth being the sum of the
\* widths resolved for the current state.  (Checked under SpecScroll.)
C1_ScrollRangeAfterScroll ==
    (Ready /\ last.op \in {"wheel", "mousemoveElsewhere"}) => ScrollInRange

\* C2: the scroll range is a state invariant of the drawn grid: it holds in
\* every state, also right after the host replaced the dataset by a shorter
\* one or the container's observed size changed.  (Checked under SpecHost.)
C2_ScrollRangeInvariant == Ready => ScrollInRange

\* C3: selectedRow and hoveredRow are each none or an index in
\* [0, rowCount) of the current dataset, and hoveredRow is none once the
\* pointer has left the canvas.  (Checked under SpecPointer.)
C3_RowRefsValid ==
    /\ selectedRow = NoRow \/ selectedRow \in 0 .. (rowCount - 1)
    /\ hoveredRow = NoRow \/ hoveredRow \in 0 .. (rowCount - 1)
    /\ last.op = "mouseout" => hoveredRow = NoRow

\* C4: a mousedown at (x, y) below the header band leaves selectedRow = r,
\* the one r with r*rowHeight <= y - headerHeight + scrollTop <
\* (r+1)*rowHeight, when r < rowCount, and none when r >= rowCount.
\* (Checked under SpecPointer.)
C4_PointerDownSelects ==
    (last.op = "mousedown" /\ last.args[2] > headerHeight) =>
        LET pos == FAdd(FInt(last.args[2] - headerHeight), scrollTop)
        IN  \E r \in 0 .. (last.args[2] + FCeil(scrollTop)) :
                /\ FLe(FInt(r * rowHeight), pos)
                /\ FLt(pos, FInt((r + 1) * rowHeight))
                /\ selectedRow = IF r < rowCount THEN r ELSE NoRow

\* A mousedown below the last row of the dataset has cleared selectedRow.
C4_ClickBelowLastRow ==
    /\ last.op = "mousedown"
    /\ last.args[2] > headerHeight
    /\ rowIndexAt(last.args[2]) >= rowCount
    /\ selectedRow = NoRow

\* C5: at most one of column resizing, vertical thumb dragging and
\* horizontal thumb dragging is active.  (Checked under SpecDrag.)
C5_OneDragMode ==
    /\ ~(state.isResizing /\ isDraggingScroll)
    /\ ~(state.isResizing /\ isDraggingHorizontalScroll)
    /\ ~(isDraggingScroll /\ isDraggingHorizontalScroll)

\* C6: after a mouseup, over the canvas or anywhere else, no drag is active.
\* (Checked under SpecDrag.)
C6_PointerUpEndsDrag ==
    (Ready /\ last.op \in {"mouseup", "mouseupElsewhere"}) => NoDragActive

\* C7: an axis's window listeners are registered only while that axis's
\* dragging flag is true; after a mouseup and after onUnmounted none is
\* registered, and after onUnmounted the ResizeObserver is disconnected.
\* (Checked under SpecDrag.)
C7_ListenersOnlyWhileDragging ==
    /\ IsRegistered("v") => isDraggingScroll
    /\ IsRegistered("h") => isDraggingHorizontalScroll
    /\ last.op \in {"mouseup", "mouseupElsewhere"} => winListeners = << >>
    /\ phase = "unmounted" => (winListeners = << >> /\ ~observing)

\* The component was unmounted in the middle of a drag of both thumbs (the
\* second mousedown came before any mouseup).
C7_UnmountedMidDrag ==
    /\ phase = "unmounted"
    /\ isDraggingScroll /\ isDraggingHorizontalScroll
    /\ winListeners = << >>
    /\ ~observing

\* C8: the lines drawn for a cell in the multi-line mode are at most
\* maxLines = floor((rowHeight - 20) / 20), and when the text needs more
\* lines than that the last line drawn ends with "...".  (Checked under
\* SpecText, on the layouts that end; the second part is stated where there
\* is room for a last line, maxLines >= 1.)
C8_WrapBounded ==
    (layout.stage = "wrapped" /\ ~layout.wrap.hangs) =>
        LET lines == layout.wrap.lines
            maxLines == maxLinesOf(layout.rowHeight)
            \* the lines of the same text with room for every one of them
            unbounded == wrapFrom(splitWords(layout.text), 1, << >>, << >>,
                                  layout.maxWidth, Len(layout.text) + 2)
        IN  /\ Len(lines) <= maxLines
            /\ (maxLines >= 1 /\ Len(unbounded.lines) > maxLines) =>
                  /\ lines # << >>
                  /\ Len(lines[Len(lines)]) >= 3
                  /\ SubSeq(lines[Len(lines)], Len(lines[Len(lines)]) - 2,
                            Len(lines[Len(lines)])) = ellipsis

\* C9: getEllipsisText returns a text that fits unchanged; with maxWidth at
\* least the width of "..." its result fits; and applied to its own result
\* with the same maxWidth it returns that result.  (Checked under SpecText.)
C9_EllipsisFits ==
    /\ layout.stage \in {"truncated", "truncatedTwice"} =>
          /\ measureText(layout.text) <= layout.maxWidth => layout.out = layout.text
          /\ layout.maxWidth >= measureText(ellipsis) =>
                measureText(layout.out) <= layout.maxWidth
    /\ layout.stage = "truncatedTwice" => layout.again = layout.out

\* A text too wide for its cell was cut to a non-empty prefix and "...",
\* and cut again.
C9_TextWasTruncated ==
    /\ layout.stage = "truncatedTwice"
    /\ measureText(layout.text) > layout.maxWidth
    /\ layout.out # layout.text
    /\ Len(layout.out) > Len(ellipsis)
    /\ Len(layout.out) < Len(layout.text) + Len(ellipsis)

\* C10: for a row r < rowCount and a column c, the point x = (sum of the
\* widths before c) + 1, y = headerHeight + r*rowHeight - scrollTop + 1,
\* when y >= headerHeight and the point is inside the canvas, is mapped by
\* getCellFromPoint to rowIndex r and columnIndex c (every width >= 2).
\* (Checked under SpecPointer.)
C10_HitTestRoundTrip ==
    (Ready /\ scrollTop[2] = 1 /\ \A c \in ColumnIndexes : columnWidths[c] >= 2) =>
        \A r \in 0 .. (rowCount - 1), c \in ColumnIndexes :
            LET x == SumTo(columnWidths, c) + 1
                y == headerHeight + r * rowHeight - scrollTop[1] + 1
            IN  (y >= headerHeight /\ y < domHeight) =>
                    /\ getCellFromPoint(x, y).hit
                    /\ getCellFromPoint(x, y).rowIndex = r
                    /\ getCellFromPoint(x, y).columnIndex = c

\* With scrollTop = 90 the pointer built for row 3 and column 1 moved over
\* the canvas and the row under it became the hovered one.
C10_ScrolledCellHit ==
    /\ Ready
    /\ scrollTop = FInt(90)
    /\ last.op = "mousemove"
    /\ last.args = <<SumTo(columnWidths, 1) + 1,
                     headerHeight + 3 * rowHeight - 90 + 1>>
    /\ hoveredRow = 3
    /\ getCellFromPoint(last.args[1], last.args[2]).columnIndex = 1

\* C11: for a column list with at least two columns, a pointer with
\* y >= headerHeight and x >= the sum of the resolved column widths is
\* resolved by getCellFromPoint to the last column.  (Checked under SpecHit.)
C11_PastRightEdgeIsLastColumn ==
    (/\ last.op = "contextmenu"
     /\ columnCount >= 2
     /\ last.args[2] >= headerHeight
     /\ last.args[1] >= totalWidth)
        => last.args[3].columnIndex = columnCount - 1

\* C12: a contextmenu event emits 'context-menu' if and only if
\* y >= headerHeight and the row index resolved is < rowCount, and the cell
\* emitted names a row of the dataset.  (Checked under SpecHit.)
C12_MenuOnlyForValidCell ==
    last.op = "contextmenu" =>
        /\ last.args[3].hit <=>
              (last.args[2] >= headerHeight /\ rowIndexAt(last.args[2]) < rowCount)
        /\ last.args[3].hit => last.args[3].rowIndex \in 0 .. (rowCount - 1)

\* C17: whatever the number of render() calls made between two animation
\* frames, the next animation frame executes at most one paint.
\* (Checked under SpecPointer.)
C17_OnePaintPerFrame ==
    last.op = "frame" => last.args[1] + last.args[2] <= 1

\* Nothing waits: no frame callback, no debounce timer, no observer report.
Settled == Ready /\ frameQueue = << >> /\ ~wheelTimer /\ ~resizeNotified

\* C19: once every callback has run after a change of totalWidth or of the
\* container's size, the canvas has the height of the container and the
\* width max(totalWidth, containerWidth), the width of the vertical
\* scrollbar being taken off containerWidth or not.  (Checked under SpecWheel.)
C19_SurfaceFollowsWidth ==
    Settled =>
        /\ surface.height = domHeight
        /\ surface.width \in {Max2(totalWidth, containerWidth),
                              Max2(totalWidth, containerWidth - scrollbarSize)}

\* C20: for every pointer position, dataset and column list the mousemove
\* and contextmenu handlers complete without an error raised by
\* getCellFromPoint.  (Checked under SpecHit.)
C20_HitTestNeverFails ==
    last.op \notin {"mousemoveThrew", "contextmenuThrew"}

\* C13: after every drag-move of a vertical thumb drag with the pointer at
\* Y, scrollTop = clamp(anchorScrollTop + (Y - anchorY) * (contentHeight -
\* viewportHeight) / (viewportHeight - thumbHeight), 0, contentHeight -
\* viewportHeight), the anchor being what the mousedown on the thumb
\* captured, whatever drag-moves and wheel events came in between.
\* (Checked under SpecThumb.)
C13_ThumbDragFromAnchor ==
    (last.op = "mousemoveElsewhere" /\ isDraggingScroll) =>
        LET range == contentHeight - viewportHeight
            ratio == FDiv(FInt(range), FSub(FInt(viewportHeight), thumbHeight))
            target == FAdd(startScrollTop, FMul(FInt(last.args[2] - startDragY), ratio))
        IN  scrollTop = FMax(FInt(0), FMin(target, FInt(range)))

\* A thumb pressed at scrollTop = 90 has been dragged up by 15 pixels.
C13_DraggedUpFromAnchor ==
    /\ last = Event("mousemoveElsewhere", <<0, -15>>)
    /\ isDraggingScroll
    /\ startScrollTop = FInt(90)
    /\ startDragY = 0
    /\ scrollTop = FInt(60)

\* C14: a wheel event changes scrollLeft (by deltaX when it is not 0, by
\* deltaY otherwise, clamped) and leaves scrollTop alone exactly when shift
\* is held or (deltaX # 0 and totalWidth > containerWidth); every other
\* wheel event changes scrollTop by deltaY (clamped) and leaves scrollLeft
\* alone.  (Checked under SpecWheel.)
C14_WheelRouting ==
    [][(last'.op = "wheel" /\ scrollLeft # NaN) =>
          LET shift == last'.args[1]
              dx == last'.args[2]
              dy == last'.args[3]
          IN  IF shift \/ (dx # 0 /\ totalWidth > containerWidth)
              THEN /\ scrollTop' = scrollTop
                   /\ scrollLeft' =
                        FMax(FInt(0),
                             FMin(FAdd(scrollLeft, FInt(IF dx # 0 THEN dx ELSE dy)),
                                  FInt(maxScrollLeft)))
              ELSE /\ scrollLeft' = scrollLeft
                   /\ scrollTop' =
                        FMax(FInt(0),
                             FMin(FAdd(scrollTop, FInt(dy)), FInt(maxScrollTop)))]_vars

\* A wheel event with deltaX = 210 and deltaY = 90 over columns wider than
\* the container has moved scrollLeft and not scrollTop.
C14_DeltaXRoutedLeft ==
    /\ last.op = "wheel"
    /\ last.args[1] = FALSE /\ last.args[2] = 210 /\ last.args[3] = 90
    /\ scrollLeft = FInt(50)
    /\ scrollTop = FInt(0)

\* C15: once the measuring context exists, totalWidth is the sum of the
\* resolved widths, a column with a fixed width resolves to at least that
\* width and a flexible column to at least 150, for every column list and
\* container width.  (Checked under SpecColumns.)
C15_WidthInvariant ==
    ctx =>
        /\ totalWidth = SumTo(columnWidths, columnCount)
        /\ DOMAIN columnWidths = ColumnIndexes
        /\ \A c \in ColumnIndexes :
              IF Columns[c + 1].width # 0
              THEN columnWidths[c] >= Columns[c + 1].width
              ELSE columnWidths[c] >= minColumnWidth

\* Two flexible columns in a container too narrow for them: the first one's
\* title and cells measure less than 150.
C15_FloorApplied ==
    /\ Ready
    /\ columns = <<FlexColumn, FlexColumn>>
    /\ data = LongData
    /\ containerWidth = 200
    /\ columnWidths[0] = minColumnWidth
    /\ totalWidth > containerWidth

\* The rows of the visible window: [floor(scrollTop / rowHeight),
\* ceil((scrollTop + viewportHeight) / rowHeight)), cut at rowCount.
VisibleRows ==
    {r \in 0 .. (rowCount - 1) :
        /\ r >= FFloor(FDiv(scrollTop, FInt(rowHeight)))
        /\ r < FCeil(FDiv(FAdd(scrollTop, FInt(viewportHeight)), FInt(rowHeight)))}

C18_WheelBurstOnePaint ==
    [][/\ last'.op = "wheel" => (frameQueue' = frameQueue /\ wheelTimer')
       /\ (last'.op = "debounce" /\ last'.args[1] >= 1) =>
             /\ wheelTimer /\ ~wheelTimer'
             /\ frameQueue' = Append(frameQueue, "paint")
             /\ UNCHANGED scrollVars
       /\ last'.op = "frame" => UNCHANGED scrollVars]_vars

\* The timer has fired after a burst of two wheel events or more that began
\* with no callback waiting: one paint waits for the next frame.
C18_BurstEnded ==
    /\ last = Event("debounce", <<MaxBurst>>)
    /\ MaxBurst >= 2
    /\ frameQueue = <<"paint">>
    /\ scrollTop = FInt(90)
    /\ scrollLeft = FInt(50)

\* C21: while the measuring context has not been created, every column has
\* a resolved width (150 for a flexible column, its width for a fixed one)
\* and totalWidth is the finite sum of these widths.
\* (Checked under SpecColumns.)
C21_WidthsBeforeContext ==
    ~ctx =>
        /\ ~totalWidthIsNaN
        /\ \A c \in ColumnIndexes :
              /\ c \in DOMAIN columnWidths
              /\ columnWidths[c] = IF Columns[c + 1].width # 0
                                   THEN Columns[c + 1].width ELSE minColumnWidth

\* C24: the wrap loop of the multi-line mode, with its loop that trims the
\* line until the line and the ellipsis fit, ends for every text, room and
\* row height, a room narrower than the ellipsis included.
\* (Checked under SpecText.)
C24_WrapEnds ==
    layout.stage = "wrapped" => ~layout.wrap.hangs

\* C25: with the dataset, the columns and the container fixed, no scroll
\* event makes the resolved width of a flexible column smaller.
\* (Checked under SpecWheel.)
C25_FlexibleNeverShrinks ==
    [][(ctx /\ ctx' /\ containerWidth' = containerWidth) =>
          \A c \in flexColumns : columnWidths'[c] >= columnWidths[c]]_vars

\* The track lengths left to the thumbs (track less thumb).
scrollableHeight == FSub(FInt(viewportHeight), thumbHeight)
scrollableWidth ==
    FSub(FInt(containerWidth - (IF showScrollbar THEN scrollbarSize ELSE 0)),
         horizontalThumbWidth)

\* C22: a drag-move of a scrollbar whose maxScroll is <= 0 or whose track
\* less its thumb is <= 0 leaves scrollTop and scrollLeft as they are, on
\* both axes.  (Checked under SpecNarrow.)
C22_DegenerateDragIsNoOp ==
    [][(last'.op = "mousemoveElsewhere" /\ ~totalWidthIsNaN /\ scrollLeft # NaN) =>
          /\ (maxScrollLeft <= 0 \/ FLe(scrollableWidth, FInt(0)))
                => scrollLeft' = scrollLeft
          /\ (maxScrollTop <= 0 \/ thumbHeight = Infinity
                \/ FLe(scrollableHeight, FInt(0)))
                => scrollTop' = scrollTop]_vars

\* C23: while a column is being resized, a mousemove at x changes the
\* resolved width of that column by x less the x of the previous move (or
\* of the mousedown) and leaves the resolved widths of the other columns.
\* (Checked under SpecResize.)
C23_ResizeMovesResolvedWidth ==
    [][(last'.op = "mousemove" /\ state.isResizing /\ resizingColumn # NoColumn) =>
          \A c \in ColumnIndexes :
              columnWidths'[c] =
                  columnWidths[c]
                    + (IF c = resizingColumn THEN last'.args[1] - state.startX ELSE 0)]_vars

\* C29: after a mouseout hoveredRow is none, the tooltip is hidden, a paint
\* waits for the next frame and no column resize is active.
\* (Checked under SpecResize.)
C29_MouseOutEndsInIdle ==
    last.op = "mouseout" =>
        /\ hoveredRow = NoRow
        /\ ~tooltipShow
        /\ CountOf(frameQueue, "paint") >= 1
        /\ ~state.isResizing

\* The columns whose right edge is at a distance < 5 from x.
ColumnsWithEdgeNear(x) ==
    {c \in ColumnIndexes : Abs(x - SumTo(columnWidths, c + 1)) < borderTolerance}

\* C30: a mousedown at (x, y) outside a resize starts the resize of column
\* i if and only if y <= headerHeight and i is the first column whose right
\* edge is at a distance < 5 from x; it then leaves selectedRow, and a
\* mousedown with y > headerHeight starts no resize.
\* (Checked under SpecResize.)
C30_ResizeStartsAtBorder ==
    [][(last'.op = "mousedown" /\ ~state.isResizing) =>
          LET x == last'.args[1]
              y == last'.args[2]
              near == ColumnsWithEdgeNear(x)
          IN  /\ state'.isResizing <=> (y <= headerHeight /\ near # {})
              /\ state'.isResizing =>
                    /\ resizingColumn' \in near
                    /\ \A c \in near : resizingColumn' <= c
                    /\ selectedRow' = selectedRow
              /\ y > headerHeight => ~state'.isResizing]_vars

\* With a row selected, a mousedown on the header one pixel right of the
\* first column's edge has started the resize of that column.
C30_ResizeStartedWithSelection ==
    /\ last = Event("mousedown", <<101, 20>>)
    /\ state.isResizing
    /\ resizingColumn = 0
    /\ SumTo(columnWidths, 1) = 100
    /\ selectedRow # NoRow

\* The place of a drawing operation in the order of a frame.
OpRank(o) ==
    CASE o.op = "clear" -> 0
      [] o.op = "selected" -> 1
      [] o.op = "hovered" -> 2
      [] o.op = "row" -> 3
      [] o.op = "header" -> 4

OpsOfKind(ops, kind) == {i \in DOMAIN ops : ops[i].op = kind}

\* C26: a painted frame clears the canvas, then draws the highlight of the
\* selected row (only if there is one), then that of the hovered row (only
\* if there is one and it is not the selected row), then the rows, then
\* the header band, and nothing after the header band.
\* (Checked under SpecPointer.)
C26_DrawOrder ==
    (last.op = "frame" /\ last.args[1] >= 1) =>
        LET ops == last.args[3]
        IN  /\ OpsOfKind(ops, "clear") = {1}
            /\ OpsOfKind(ops, "header") = {Len(ops)}
            /\ \A i, j \in DOMAIN ops : i < j => OpRank(ops[i]) <= OpRank(ops[j])
            /\ Cardinality(OpsOfKind(ops, "selected"))
                  = (IF selectedRow # NoRow THEN 1 ELSE 0)
            /\ Cardinality(OpsOfKind(ops, "hovered"))
                  = (IF hoveredRow # NoRow /\ hoveredRow # selectedRow THEN 1 ELSE 0)

\* A frame has painted with row 0 selected and row 1 hovered: both
\* highlights, rows and the header band were drawn.
C26_BothHighlightsDrawn ==
    /\ last.op = "frame"
    /\ last.args[1] >= 1
    /\ selectedRow = 0
    /\ hoveredRow = 1
    /\ Cardinality(OpsOfKind(last.args[3], "row")) >= 2
    /\ last.args[3][2] = Op("selected", 0)
    /\ last.args[3][3] = Op("hovered", 1)

\* The rows drawn by the paint of the layout job.
PaintedRows == {layout.rows[k] : k \in DOMAIN layout.rows}

\* C27: a paint draws every row i < rowCount whose band [headerHeight +
\* i*rowHeight - scrollTop, headerHeight + (i+1)*rowHeight - scrollTop)
\* meets the body area [headerHeight, containerHeight), for the row
\* heights, header heights, offsets and device pixel ratios of the sets.
\* (Checked under SpecPaint.)
C27_VisibleRowsPainted ==
    layout.stage = "painted" =>
        \A i \in 0 .. (layout.rowCount - 1) :
            LET top == layout.headerHeight + i * layout.rowHeight - layout.scrollTop
            IN  (top < layout.height /\ top + layout.rowHeight > layout.headerHeight)
                    => i \in PaintedRows

\* C28: the rows a paint draws are exactly those of the visible window:
\* floor(scrollTop/rowHeight) <= i < min(rowCount, ceil((scrollTop +
\* viewportHeight)/rowHeight)), viewportHeight being the container's height
\* less headerHeight.  (Checked under SpecPaint.)
C28_PaintedIsVisibleWindow ==
    layout.stage = "painted" =>
        PaintedRows =
            {i \in 0 .. (layout.rowCount - 1) :
                /\ i >= layout.scrollTop \div layout.rowHeight
                /\ i < FCeil(Norm(layout.scrollTop + layout.height - layout.headerHeight,
                                  layout.rowHeight))}

\* The prefix lengths of t whose prefix, with the ellipsis, fits maxWidth.
FittingPrefixes(t, maxWidth) ==
    {k \in 0 .. Len(t) : measureText(Prefix(t, k)) + measureText(ellipsis) <= maxWidth}

\* C31: on a text that does not fit, getEllipsisText returns the longest
\* prefix whose width with "..." is at most maxWidth, followed by "...";
\* when no prefix is short enough the result is "..." alone.
\* (Checked under SpecText.)
C31_LongestFittingPrefix ==
    (layout.stage = "truncated" /\ measureText(layout.text) > layout.maxWidth) =>
        LET fit == FittingPrefixes(layout.text, layout.maxWidth)
        IN  IF fit = {} THEN layout.out = ellipsis
            ELSE \E k \in fit :
                    /\ \A j \in fit : j <= k
                    /\ layout.out = Prefix(layout.text, k) \o ellipsis

\* A text of three letters in a room of 20 was cut to its first letter and
\* "...", which fill the room to the pixel.
C31_CutToExactFit ==
    /\ layout.stage = "truncated"
    /\ layout.text = <<"w", "w", "w">>
    /\ layout.maxWidth = 20
    /\ layout.out = <<"w", ".", ".", ".">>
    /\ measureText(layout.out) = layout.maxWidth

\* The width left to the columns beside the vertical scrollbar.
availableWidth == containerWidth - (IF showScrollbar THEN scrollbarSize ELSE 0)

\* The minimum width of column c: its fixed width, or for a flexible column
\* the measure of its title and visible cells, at least 150.
MinimumWidth(c) ==
    IF Columns[c + 1].width > 0 THEN Columns[c + 1].width
    ELSE measureCellWidth(c, scrollTop)

RECURSIVE SumOfMinimums(_)
SumOfMinimums(n) == IF n = 0 THEN 0 ELSE SumOfMinimums(n - 1) + MinimumWidth(n - 1)

\* C32: with a context, a column with a fixed width resolves to that width;
\* with S the sum of the fixed widths and the flexible minimums, A the
\* container width less the scrollbar's 12 and n >= 1 flexible columns,
\* S < A gives each flexible column its minimum + floor((A - S)/n) and
\* A - n < totalWidth <= A, and S >= A gives each its minimum.
\* (Checked under SpecSlack.)
C32_SlackDistribution ==
    ctx =>
        LET S == SumOfMinimums(columnCount)
            A == availableWidth
            n == Cardinality(flexColumns)
        IN  /\ \A c \in ColumnIndexes \ flexColumns :
                  columnWidths[c] = Columns[c + 1].width
            /\ (n >= 1 /\ S < A) =>
                  /\ \A c \in flexColumns :
                        /\ n * (columnWidths[c] - MinimumWidth(c)) <= A - S
                        /\ n * (columnWidths[c] - MinimumWidth(c) + 1) > A - S
                  /\ A - n < totalWidth
                  /\ totalWidth <= A
            /\ (n >= 1 /\ S >= A) =>
                  \A c \in flexColumns : columnWidths[c] = MinimumWidth(c)

\* Two flexible columns of minimum 150 share a slack of 101 in a container
\* 401 wide without a scrollbar: 50 each, and one pixel is left over.
C32_OddSlackShared ==
    /\ Ready
    /\ columns = <<FlexColumn, FlexColumn>>
    /\ containerWidth = 401
    /\ ~showScrollbar
    /\ columnWidths[0] = 200
    /\ columnWidths[1] = 200
    /\ totalWidth = 400

\* The far end of the vertical track for the thumb's top: headerHeight +
\* max(0, viewportHeight - thumbHeight), thumbHeight being
\* max(40, viewportHeight * viewportHeight / contentHeight).
TrackEnd ==
    IF contentHeight = 0 THEN FInt(headerHeight)
    ELSE FAdd(FInt(headerHeight),
              FMax(FInt(0),
                   FSub(FInt(viewportHeight),
                        FMax(FInt(minThumbHeight),
                             Norm(viewportHeight * viewportHeight, contentHeight)))))

\* C33: in every state the vertical thumb's position lies in [headerHeight,
\* headerHeight + max(0, viewportHeight - thumbHeight)]; when the content
\* is no higher than the viewport the position is headerHeight and
\* scrollTop is 0 after every wheel or drag event.
\* (Checked under SpecTrack.)
C33_ThumbOnTrack ==
    /\ thumbPosition # NaN
    /\ thumbPosition # Infinity
    /\ FLe(FInt(headerHeight), thumbPosition)
    /\ FLe(thumbPosition, TrackEnd)
    /\ contentHeight <= viewportHeight =>
          /\ thumbPosition = FInt(headerHeight)
          /\ last.op \in {"wheel", "mousemoveElsewhere"} => scrollTop = FInt(0)

\* C34: in the earlier grid, during a resize drag that has moved, the
\* effective width of the resized column is its effective width at the
\* mousedown plus the x of the last move less the x of the mousedown, also
\* when a width in between was zero or negative.  (Checked under SpecEarly.)
C34_ResizeAddsUp ==
    (layout.stage = "early" /\ layout.isResizing /\ layout.moves >= 1) =>
        effectiveWidth(layout.columnWidths, layout.resizingColumn)
            = layout.downWidth + (layout.startX - layout.downX)

\* C35: after a mousemove outside a column resize the tooltip is shown if
\* and only if showEllipsis is set and the pointer is on a cell of a row
\* below rowCount whose text is wider than the column's width less 20; it
\* is hidden over the header band and below the last row.
\* (Checked under SpecTooltip.)
C35_TooltipOnlyForCutText ==
    (last.op = "mousemove" /\ ~state.isResizing) =>
        LET cell == getCellFromPoint(last.args[1], last.args[2])
        IN  tooltipShow <=>
                /\ showEllipsis
                /\ last.args[2] >= headerHeight
                /\ cell.rowIndex >= 0 /\ cell.rowIndex < rowCount
                /\ data[cell.rowIndex + 1][cell.columnIndex + 1]
                      > columnWidths[cell.columnIndex] - 20

\* C36: once the component is unmounted, no frame runs a paint of it and
\* no paint fails, whether a frame was asked for or the wheel's timer was
\* armed at the unmount.  (Checked under SpecTeardown.)
C36_NoPaintAfterTeardown ==
    (phase = "unmounted" /\ last.op = "frame") =>
        /\ last.args[1] = 0
        /\ last.args[2] = 0

\* C37: every wheel event that moves scrollTop or scrollLeft is followed
\* by a frame that paints, also when the wheel events keep arriving with
\* less than 16 ms between them.  (Checked under SpecWheelLive.)
C37_WheelLeadsToPaint ==
    (last.op = "wheel") ~> (last.op = "frame" /\ last.args[1] >= 1)

(***************************************************************************)
(* The popup menu (ContextMenu.vue and its earlier variant).  One menu     *)
(* component is mounted for the root list and one for every item that has  *)
(* children; a nested menu is named by the key of the item that owns it.   *)
(***************************************************************************)
\* The demo host's menuItems: the items of every menu, by the menu's name.
menuItems ==
    [root         |-> {"operations", "export", "refresh"},
     operations   |-> {"copy", "edit", "delete"},
     export       |-> {"exportExcel", "exportPDF", "otherFormats"},
     otherFormats |-> {"exportCSV", "exportTXT"}]

Menus == DOMAIN menuItems
RootMenu == "root"
\* item.children is set
ParentKeys == Menus \ {RootMenu}
MenuKeys == UNION {menuItems[m] : m \in Menus}
NoItem == "none"
\* "map": ContextMenu.vue keeps isOpen in the reactive menuItemStates map;
\* "flags": the earlier variant keeps it on the plain objects of
\* processedMenuItems, which the renderer does not track.
MenuVariants == {"map", "flags"}

\* The menu instance whose v-for renders the item.
menuOf(k) == CHOOSE m \in Menus : k \in menuItems[m]

\* The items from the root list down to the item: the .menu-item elements
\* that contain the item's element, outermost first.
RECURSIVE pathTo(_)
pathTo(k) ==
    IF menuOf(k) = RootMenu THEN <<k>> ELSE Append(pathTo(menuOf(k)), k)

SeqRange(s) == {s[i] : i \in 1..Len(s)}

\* closeAllSubMenus of menu m: menuItemStates.clear(), read back by
\* getMenuItemState as isOpen false for each of its items (the earlier
\* variant sets isOpen false on each item with children).
closeAllSubMenus(s, m) ==
    [s EXCEPT !.open = [k \in ParentKeys |->
                            IF menuOf(k) = m THEN FALSE ELSE s.open[k]]]

\* emit('update:visible', false) of menu m: the host's v-model clears its
\* contextMenuVisible for the root menu; the owning menu's v-model writes
\* isOpen false for a nested one.
emitUpdateVisible(s, m) ==
    IF m = RootMenu
    THEN [s EXCEPT !.visible = FALSE, !.requested = s.requested + 1,
                   !.dirty = IF s.visible THEN s.dirty \cup {RootMenu}
                                          ELSE s.dirty]
    ELSE [s EXCEPT !.open[m] = FALSE]

closeMenu(s, m) == closeAllSubMenus(emitUpdateVisible(s, m), m)

\* emit('select', item) of menu m runs the listener synchronously: the
\* host's handleMenuSelect for the root menu, the owning menu's
\* handleSelect for a nested one.
RECURSIVE handleSelect(_, _, _)
emitSelect(s, m, item) ==
    IF m = RootMenu
    THEN [s EXCEPT !.selects = Append(s.selects, item)]
    ELSE handleSelect(s, menuOf(m), item)

handleSelect(s, m, item) == closeMenu(emitSelect(s, m, item), m)

\* handleClick without the early return for an item with children.
handleClickOfAny(s, m, item) ==
    closeMenu(emitSelect(s, m, item), m)

handleClick(s, m, item) ==
    IF item \in ParentKeys THEN s ELSE closeMenu(emitSelect(s, m, item), m)

\* A click on the item's element: its own listener runs, then the click
\* bubbles to the .menu-item elements that contain it.
RECURSIVE clickBubbles(_, _)
clickBubbles(s, k) ==
    LET s1 == handleClick(s, menuOf(k), k)
    IN  IF menuOf(k) = RootMenu THEN s1 ELSE clickBubbles(s1, menuOf(k))

\* handleMouseEnter that opens the item's submenu and leaves the siblings'.
handleMouseEnterKeeps(s, m, item, enough) ==
    IF item \notin ParentKeys
    THEN closeAllSubMenus(s, m)
    ELSE [s EXCEPT !.open[item] = TRUE,
                   !.subMenuPositions[item] =
                        IF s.variant = "flags" THEN "empty"
                        ELSE IF enough THEN "right" ELSE "left",
                   !.dirty = s.dirty \cup {m, item}]

\* handleMouseEnter of menu m on one of its items; enough is
\* rightSpace >= subMenuWidth.  Writing subMenuPositions makes menu m render
\* again, and the new position object makes the item's submenu render again.
handleMouseEnter(s, m, item, enough) ==
    IF item \notin ParentKeys
    THEN closeAllSubMenus(s, m)
    ELSE [s EXCEPT !.open = [k \in ParentKeys |->
                                IF menuOf(k) = m THEN k = item ELSE s.open[k]],
                   !.subMenuPositions[item] =
                        IF s.variant = "flags" THEN "empty"
                        ELSE IF enough THEN "right" ELSE "left",
                   !.dirty = s.dirty \cup {m, item}]

\* handleClickOutside of the root menu for a mousedown whose target is in
\* no .context-menu element.
handleClickOutside(s) ==
    closeAllSubMenus(closeMenu(s, RootMenu), RootMenu)

\* watch(() => props.visible): a menu whose visible went from true to false
\* clears its map, which takes the visible of its own submenus to false.
RECURSIVE watchVisible(_, _, _, _)
watchVisible(open, wasVisible, before, n) ==
    LET hidden == {m \in Menus :
                     IF m = RootMenu THEN wasVisible.was /\ ~wasVisible.is
                                     ELSE before[m] /\ ~open[m]}
        cleared == [k \in ParentKeys |-> open[k] /\ menuOf(k) \notin hidden]
    IN  IF n = 0 \/ cleared = open THEN open
        ELSE watchVisible(cleared, wasVisible, before, n - 1)

\* The menus that render again: the ones whose own state was written, and
\* each nested menu whose visible differs from the one it was last given
\* by a menu that renders again.
RECURSIVE rendering(_, _, _, _)
rendering(dirty, open, shown, n) ==
    LET more == dirty \cup {k \in ParentKeys :
                                menuOf(k) \in dirty /\ open[k] # shown[k]}
    IN  IF n = 0 \/ more = dirty THEN dirty
        ELSE rendering(more, open, shown, n - 1)

MenuDepth == Cardinality(Menus)

\* The scheduler's flush after a listener: s0 is the state before the
\* listener ran.  The map is reactive, so every isOpen written is rendered;
\* the flags are rendered only by a menu that renders for another reason.
flush(s0, s) ==
    IF s.variant = "map"
    THEN LET o == watchVisible(s.open,
                               [was |-> s0.visible, is |-> s.visible],
                               s0.shown, MenuDepth)
         IN  [s EXCEPT !.open = o, !.shown = o, !.dirty = {}]
    ELSE LET r == rendering(s.dirty, s.open, s.shown, MenuDepth)
         IN  [s EXCEPT !.shown = [k \in ParentKeys |->
                                    IF menuOf(k) \in r THEN s.open[k]
                                                       ELSE s.shown[k]],
                       !.dirty = {}]

\* The menu's element is displayed: .show-menu / v-show of the root follows
\* the host's visible, of a nested menu the visible it was last given, and
\* an element inside one that is not displayed is not displayed either.
RECURSIVE onScreen(_, _)
onScreen(s, m) ==
    IF m = RootMenu THEN s.visible
    ELSE s.shown[m] /\ onScreen(s, menuOf(m))

\* The pointer is over the item only while the item's element is displayed.
settle(s) ==
    IF s.hovered # NoItem /\ ~onScreen(s, menuOf(s.hovered))
    THEN [s EXCEPT !.hovered = NoItem]
    ELSE s

\* mouseenter is dispatched to each element that the pointer has entered,
\* outermost first, each listener followed by a flush.
RECURSIVE enterAll(_, _, _)
enterAll(s, entered, enough) ==
    IF entered = << >> THEN s
    ELSE LET k  == Head(entered)
             s1 == flush(s, handleMouseEnter(s, menuOf(k), k, enough))
         IN  enterAll(s1, Tail(entered), enough)

Entered(from, to) ==
    IF to = NoItem THEN << >>
    ELSE LET inside == IF from = NoItem THEN {} ELSE SeqRange(pathTo(from))
             keep(k) == k \notin inside
         IN  SelectSeq(pathTo(to), keep)

MenuEvent(s, op, item) ==
    [s EXCEPT !.op = op, !.item = item, !.entered = << >>,
              !.selects = << >>, !.requested = 0]

InitMenu ==
    /\ InitGrid
    /\ data = LongData /\ showEllipsis = FALSE /\ domWidth = 200
    /\ domHeight \in ContainerHeights
    /\ columns = DefaultColumns
    /\ \E v \in MenuVariants :
         layout = [stage |-> "menu", variant |-> v, visible |-> FALSE,
                   open |-> [k \in ParentKeys |-> FALSE],
                   shown |-> [k \in ParentKeys |-> FALSE],
                   subMenuPositions |-> [k \in ParentKeys |-> "unset"],
                   dirty |-> {}, hovered |-> NoItem,
                   op |-> "setup", item |-> NoItem, entered |-> << >>,
                   selects |-> << >>, requested |-> 0]

\* The host's handleContextMenu sets contextMenuVisible.
HostShowsMenu ==
    /\ layout.stage = "menu"
    /\ ~layout.visible
    /\ LET s == MenuEvent(layout, "show", NoItem)
       IN  layout' = settle(flush(s, [s EXCEPT !.visible = TRUE,
                                               !.dirty = {RootMenu}]))
    /\ UNCHANGED gridVars

\* The host takes the visible prop back without a request of the menu.
HostHidesMenu ==
    /\ layout.stage = "menu"
    /\ layout.visible
    /\ LET s == MenuEvent(layout, "hide", NoItem)
       IN  layout' = settle(flush(s, [s EXCEPT !.visible = FALSE,
                                               !.dirty = {RootMenu}]))
    /\ UNCHANGED gridVars

\* The pointer moves onto a displayed item, or off the menu.
MenuMouseMove ==
    /\ layout.stage = "menu"
    /\ \E to \in MenuKeys \cup {NoItem}, enough \in BOOLEAN :
         /\ to # layout.hovered
         /\ to # NoItem => onScreen(layout, menuOf(to))
         /\ to \notin ParentKeys => enough
         /\ LET entered == Entered(layout.hovered, to)
                s == [MenuEvent(layout, "mouseenter", to) EXCEPT
                          !.hovered = to, !.entered = entered]
            IN  layout' = settle(enterAll(s, entered, enough))
    /\ UNCHANGED gridVars

\* A click on the item under the pointer.
MenuClick ==
    /\ layout.stage = "menu"
    /\ layout.hovered # NoItem
    /\ LET s == MenuEvent(layout, "click", layout.hovered)
       IN  layout' = settle(flush(s, clickBubbles(s, layout.hovered)))
    /\ UNCHANGED gridVars

\* A mousedown anywhere off the menu; the document listener of the root
\* menu is there whether the menu is displayed or not.
MenuClickOutside ==
    /\ layout.stage = "menu"
    /\ layout.hovered = NoItem
    /\ LET s == MenuEvent(layout, "outside", NoItem)
       IN  layout' = settle(flush(s, handleClickOutside(s)))
    /\ UNCHANGED gridVars

NextMenu ==
    HostShowsMenu \/ HostHidesMenu \/ MenuMouseMove \/ MenuClick \/ MenuClickOutside
SpecMenu == InitMenu /\ [][NextMenu]_vars

\* The same, for ContextMenu.vue alone.
InitMenuMap == InitMenu /\ layout.variant = "map"
SpecMenuMap == InitMenuMap /\ [][NextMenu]_vars

\* The items of menu m whose submenu is recorded as open.
OpenItems(m) == {k \in menuItems[m] \cap ParentKeys : layout.open[k]}

\* C38: a click on a leaf item at any depth delivers exactly one select,
\* carrying that item, to the host, and leaves the root menu having asked
\* for visible = false, the host's visible false and no submenu of any menu
\* recorded as open; a click on an item with children delivers no select,
\* asks for nothing and changes nothing of the menu.
\* (Checked under SpecMenuMap.)
C38_LeafClickSelectsOnce ==
    [][MenuClick =>
         IF layout.hovered \in ParentKeys
         THEN /\ layout'.selects = << >>
              /\ layout'.requested = 0
              /\ layout'.visible = layout.visible
              /\ layout'.open = layout.open
              /\ layout'.shown = layout.shown
              /\ layout'.hovered = layout.hovered
         ELSE /\ layout'.selects = <<layout.hovered>>
              /\ layout'.requested >= 1
              /\ ~layout'.visible
              /\ \A k \in ParentKeys : ~layout'.open[k]]_vars

\* A leaf of the third menu down was clicked and the host was told of it.
C38_DeepLeafSelected ==
    /\ layout.stage = "menu"
    /\ layout.op = "click"
    /\ layout.item = "exportCSV"
    /\ layout.selects = <<"exportCSV">>
    /\ ~layout.visible

\* C39: in every menu at most one item has its submenu recorded as open;
\* after the mouseenter listener of an item with children has run, that
\* item is the one open item of its menu, and after the listener of a leaf
\* item has run, no item of its menu is open.  (Checked under SpecMenu.)
C39_OneOpenPerMenu ==
    layout.stage = "menu" =>
        /\ \A m \in Menus : Cardinality(OpenItems(m)) <= 1
        /\ (layout.op = "mouseenter" /\ layout.item \in SeqRange(layout.entered)) =>
              OpenItems(menuOf(layout.item)) =
                  IF layout.item \in ParentKeys THEN {layout.item} ELSE {}

\* The pointer went from the open submenus of one root item onto another
\* root item with children, which is now the open one.
C39_SiblingClosed ==
    /\ layout.stage = "menu"
    /\ layout.op = "mouseenter"
    /\ layout.item = "operations"
    /\ layout.entered = <<"operations">>
    /\ OpenItems(RootMenu) = {"operations"}
    /\ layout.subMenuPositions["export"] # "unset"
    /\ layout.subMenuPositions["otherFormats"] # "unset"

=============================================================================
